---- MODULE Spec2Model ----
(***************************************************************************)
(* A model of the djbot mix planner (backend/planner.go), the plan         *)
(* endpoint (backend/main.go), the headless timeline simulation            *)
(* (backend/simulate_test.go), the PCM canvas renderer                     *)
(* (backend/renderer.go, the revision that holds clampPlayBounds), the     *)
(* analyzer's batch and cache (AnalyzeTrack, AnalyzeBatch) and its beat    *)
(* grid (estimateBeatTimes).                                               *)
(*                                                                         *)
(* Numbers.  The Go code computes in float64.  The model computes in       *)
(* fixed point:                                                            *)
(*   - a time in seconds is an integer number of ticks of 0.1 ms;          *)
(*   - a tempo is an integer number of tenths of a BPM;                    *)
(*   - a weight, an energy or a score is an integer number of thousandths. *)
(* Integer milliseconds and sample counts are the integers of the code.    *)
(***************************************************************************)
EXTENDS Integers, Sequences, FiniteSets, TLC

VARIABLES
    \* ---- POST /plan and GenerateMixPlan ----
    caller,          \* "http" (handlePlan) or "test" (TestTimelineSimulation)
    tracks,          \* req.Tracks: the analyzed tracks, as ids of the library
    typeWeights,     \* req.TypeWeights (Nil or a map type -> weight)
    barWeights,      \* req.BarWeights (Nil or a map bars -> weight)
    numScenarios,    \* req.Scenarios
    pc,              \* position in the running handler
    sorted,          \* GenerateMixPlan: sorted
    s,               \* GenerateMixPlan: scenario counter
    i,               \* GenerateMixPlan: pair counter of the scenario
    scenarioScore, scenarioCands, scenarioSels, minExitTime,
    bestScore, bestSelections, bestCandidates,
    plan,            \* the MixPlan GenerateMixPlan returned
    response,        \* what handlePlan wrote to the client
    \* ---- TestTimelineSimulation ----
    entries,         \* ComputePlayBounds(sortedPlaylist, plan.Selections)
    simI,            \* the loop counter of the timeline loop
    simOffsetMs,     \* currentOffsetMs
    simPrevChunkMs,  \* prevChunkMs
    simExpected,     \* totalExpectedSec (ticks)
    simNegative,     \* hasNegative
    simFloored,      \* history: "currentOffsetMs = 0" was executed
    simFailed,       \* t.Errorf was called
    \* the same loop with the renderer's own clamps (RenderFinalMix)
    rlOffsetMs, rlPrevChunkMs, rlExpected, rlNegative, rlFloored,
    \* ---- RenderFinalMix ----
    rpc,               \* where RenderFinalMix stands
    playlist,          \* []TrackEntry (Filepath and PlayEnd are rewritten)
    transitions,       \* []TransitionSpec
    media,             \* the normalized WAV ffmpeg produces for each track
    normState,         \* each normalization goroutine: waiting, running, done
    normResults,       \* []normResult
    wavMap,            \* the WAV paths to clean up
    fades,             \* []fadeInfo of the pre-pass
    ri,                \* the main loop's index (1-based)
    currentOffsetMs,
    prevActualChunkMs,
    canvas,            \* []float32, run-length encoded
    trackStarts,       \* the sidecar entries collected by the loop
    files,             \* the files present in cacheDir and at outputPath
    result,            \* what RenderFinalMix returned
    lrc,               \* the lines written to the sidecar
    faults,            \* how many operations of the environment have failed
    overlays,          \* history: offsetSamples and length of every overlay
    xfades,            \* history: the crossfade applied before each track
    \* ---- clampPlayBounds on its own ----
    clampIn, clampOut,
    \* ---- AnalyzeBatch and the analysis cache ----
    bpc,             \* "running" (goroutines at work) or "returned"
    bqueue,          \* the batches the caller has still to request
    bpaths,          \* paths
    gstate,          \* where each goroutine of the batch stands
    ghash,           \* AnalyzeTrack: hash
    gta,             \* AnalyzeTrack: ta
    cache,           \* cacheDir: the bytes of <hash>_analysis.json, per hash
    results,         \* results
    errors,          \* errors
    bret,            \* what AnalyzeBatch returned
    bfaults,         \* how many cache writes have failed
    gprior,          \* history: the first result for these bytes, known when the call began
    gdecoded,        \* history: the call invoked the decoder
    gwrote,          \* history: the bytes the call wrote to the cache
    firstOk,         \* history: per file content, the first successful result
    \* ---- camelotDistance on its own ----
    keyIn, keyOut,
    \* ---- the sidecar line on its own ----
    lrcIn, lrcOut,
    \* ---- estimateBeatTimes on its own ----
    beatIn, beatOut,
    \* ---- selectBest on its own ----
    selIn, selOut

planVars == <<caller, tracks, typeWeights, barWeights, numScenarios, pc, sorted,
              s, i, scenarioScore, scenarioCands, scenarioSels, minExitTime,
              bestScore, bestSelections, bestCandidates, plan, response>>

simVars == <<entries, simI, simOffsetMs, simPrevChunkMs, simExpected, simNegative,
             simFloored, simFailed, rlOffsetMs, rlPrevChunkMs, rlExpected,
             rlNegative, rlFloored>>

renderVars == <<rpc, playlist, transitions, media, normState, normResults, wavMap, fades,
                ri, currentOffsetMs, prevActualChunkMs, canvas, trackStarts, files,
                result, lrc, faults, overlays, xfades>>

clampVars == <<clampIn, clampOut>>

batchVars == <<bpc, bqueue, bpaths, gstate, ghash, gta, cache, results, errors, bret,
               bfaults, gprior, gdecoded, gwrote, firstOk>>

keyVars == <<keyIn, keyOut>>

lrcVars == <<lrcIn, lrcOut>>

beatVars == <<beatIn, beatOut>>

selVars == <<selIn, selOut>>

auxVars == <<batchVars, keyVars, lrcVars, beatVars, selVars>>

vars == <<planVars, simVars, renderVars, clampVars, auxVars>>

-----------------------------------------------------------------------------
(* Units and arithmetic                                                    *)

TicksPerMs  == 2 * 5
TicksPerSec == 1000 * TicksPerMs
Sec(x)      == x * TicksPerSec

Abs(x)    == IF x < 0 THEN -x ELSE x
Max(a, b) == IF a > b THEN a ELSE b
Min(a, b) == IF a < b THEN a ELSE b

\* math.Round of a / b (b > 0): to the nearest integer, halves away from zero.
RoundDiv(a, b) ==
    IF a >= 0 THEN (2 * a + b) \div (2 * b) ELSE -((2 * (-a) + b) \div (2 * b))

\* int(a / b) (b > 0): Go's conversion truncates toward zero.
TruncDiv(a, b) == IF a >= 0 THEN a \div b ELSE -((-a) \div b)

Range(f) == {f[x] : x \in DOMAIN f}

\* A nil pointer or struct not yet written.
Nil == [nil |-> TRUE]

\* A Go map value: the nil map, or a map with the entries m.
NilMap   == [isNil |-> TRUE, m |-> <<>>]
MapOf(m) == [isNil |-> FALSE, m |-> m]

\* math.Inf(-1) and a finite float.
NegInf == [inf |-> TRUE, v |-> 0]
Fin(x) == [inf |-> FALSE, v |-> x]
\* a > b on floats that may be -Inf.
GtF(a, b) == IF a.inf THEN FALSE ELSE IF b.inf THEN TRUE ELSE a.v > b.v

-----------------------------------------------------------------------------
(* Keys.  A Go string is modelled as the sequence of its characters.       *)

noteOrder == << <<"C">>, <<"C","#">>, <<"D">>, <<"D","#">>, <<"E">>, <<"F">>,
                <<"F","#">>, <<"G">>, <<"G","#">>, <<"A">>, <<"A","#">>, <<"B">> >>

\* The index (0-based, as in Go) of the first element of seq equal to x, or
\* dflt when there is none.
IndexOf(seq, x, dflt) ==
    IF \E k \in 1..Len(seq) : seq[k] = x
    THEN (CHOOSE k \in 1..Len(seq) : seq[k] = x /\ \A j \in 1..(k - 1) : seq[j] # x) - 1
    ELSE dflt

noteIndex(key) ==
    IF Len(key) < 1 THEN 0
    ELSE LET root == IF Len(key) > 2 /\ key[2] = "#" THEN SubSeq(key, 1, 2)
                     ELSE IF Len(key) > 1 /\ key[2] = "#" THEN SubSeq(key, 1, 2)
                     ELSE SubSeq(key, 1, 1)
         IN  IndexOf(noteOrder, root, 0)

keyDistance(k1, k2) ==
    LET d0 == noteIndex(k1) - noteIndex(k2)
        d1 == IF d0 < 0 THEN -d0 ELSE d0
    IN  IF d1 > 6 THEN 12 - d1 ELSE d1

Cam(n, m) == [num |-> n, mode |-> m]

camelotMap ==
    ( <<"B">>         :> Cam(1, "B")  @@ <<"F","#">>     :> Cam(2, "B")
   @@ <<"D","b">>     :> Cam(3, "B")  @@ <<"A","b">>     :> Cam(4, "B")
   @@ <<"E","b">>     :> Cam(5, "B")  @@ <<"B","b">>     :> Cam(6, "B")
   @@ <<"F">>         :> Cam(7, "B")  @@ <<"C">>         :> Cam(8, "B")
   @@ <<"G">>         :> Cam(9, "B")  @@ <<"D">>         :> Cam(10, "B")
   @@ <<"A">>         :> Cam(11, "B") @@ <<"E">>         :> Cam(12, "B")
   @@ <<"G","#","m">> :> Cam(1, "A")  @@ <<"D","#","m">> :> Cam(2, "A")
   @@ <<"B","b","m">> :> Cam(3, "A")  @@ <<"F","m">>     :> Cam(4, "A")
   @@ <<"C","m">>     :> Cam(5, "A")  @@ <<"G","m">>     :> Cam(6, "A")
   @@ <<"D","m">>     :> Cam(7, "A")  @@ <<"A","m">>     :> Cam(8, "A")
   @@ <<"E","m">>     :> Cam(9, "A")  @@ <<"B","m">>     :> Cam(10, "A")
   @@ <<"F","#","m">> :> Cam(11, "A") @@ <<"C","#","m">> :> Cam(12, "A") )

camelotDistance(k1, k2) ==
    IF k1 \notin DOMAIN camelotMap \/ k2 \notin DOMAIN camelotMap
    THEN keyDistance(k1, k2) * 10
    ELSE LET c1 == camelotMap[k1]
             c2 == camelotMap[k2]
             d0 == Abs(c1.num - c2.num)
             distNum == IF d0 > 6 THEN 12 - d0 ELSE d0
         IN  IF c1.mode = c2.mode
             THEN IF distNum <= 1 THEN 0 ELSE (distNum - 1) * 10
             ELSE IF distNum = 0 THEN 10 ELSE distNum * 10

-----------------------------------------------------------------------------
(* Energy and the greedy ordering                                          *)

\* q[lo] + ... + q[hi]
RECURSIVE SumRange(_, _, _)
SumRange(q, lo, hi) ==
    IF lo > hi THEN 0
    ELSE IF lo = hi THEN q[lo]
    ELSE LET mid == (lo + hi) \div 2
         IN  SumRange(q, lo, mid) + SumRange(q, mid + 1, hi)

SumSeq(q) == SumRange(q, 1, Len(q))

\* avgEnergy, in thousandths.
avgEnergy(t) ==
    IF Len(t.Energy) = 0 THEN 500 ELSE SumSeq(t.Energy) \div Len(t.Energy)

\* idealEnergy(k / n) = sin(k / n * pi * 0.9) * 0.6 + 0.4 in thousandths, for
\* the positions k / n that sortPlaylist asks for (row n, column k).
idealEnergyTable ==
    << <<585>>,
       <<993, 585>>,
       <<885, 971, 585>>,
       <<790, 993, 912, 585>>,
       <<721, 943, 995, 862, 585>>,
       <<672, 885, 993, 971, 824, 585>>,
       <<636, 834, 962, 999, 941, 795, 585>>,
       <<608, 790, 923, 993, 988, 912, 771, 585>> >>

idealEnergy(k, n) == idealEnergyTable[n][k]

RemoveAt(q, k) == SubSeq(q, 1, k - 1) \o SubSeq(q, k + 1, Len(q))

\* The index that "if score >= bestScore" would keep: the last maximum.
FirstMax_Last(scores) ==
    CHOOSE k \in 1..Len(scores) :
        /\ \A j \in 1..Len(scores) : scores[j] <= scores[k]
        /\ \A j \in (k + 1)..Len(scores) : scores[j] < scores[k]

\* The index of the first element of scores that is strictly greater than
\* all before it and not smaller than any after it ("if score > bestScore").
FirstMax(scores) ==
    CHOOSE k \in 1..Len(scores) :
        /\ \A j \in 1..Len(scores) : scores[j] <= scores[k]
        /\ \A j \in 1..(k - 1) : scores[j] < scores[k]

-----------------------------------------------------------------------------
(* The analyzed tracks the model plans with.  A TrackAnalysis is a record  *)
(* with the fields of the Go struct that the planner reads.                *)

Seg(time, label, energy, vocal) ==
    [Time |-> time, Label |-> label, Energy |-> energy, VocalEnergy |-> vocal]

Hl(startTime, endTime, score) ==
    [StartTime |-> startTime, EndTime |-> endTime, Score |-> score]

\* The beat interval 60 / bpm, in ticks.
Interval(bpm10) == (60 * TicksPerSec * 10) \div bpm10

\* The beat grid "for cur := 0.0; cur < dur; cur += interval".
BeatGrid(dur, bpm10) ==
    LET iv == Interval(bpm10)
        n  == (dur + iv - 1) \div iv
    IN  [k \in 1..n |-> (k - 1) * iv]

\* Every 32nd beat time: one entry per phrase block.
PhraseGrid(beats) ==
    [k \in 1..((Len(beats) + 31) \div 32) |-> beats[(k - 1) * 32 + 1]]

\* A track as the analyzer emits it: a beat grid, its phrases, one segment
\* per phrase (vocal_energy is the analyzer's constant 0.5), one energy per beat.
GridTrack(fp, durSec, bpm10, key, labels, energy, highlights) ==
    LET beats   == BeatGrid(Sec(durSec), bpm10)
        phrases == PhraseGrid(beats)
    IN  [Filepath   |-> fp,
         Duration   |-> Sec(durSec),
         BPM        |-> bpm10,
         Key        |-> key,
         BeatTimes  |-> beats,
         Phrases    |-> phrases,
         Segments   |-> [k \in 1..Min(Len(labels), Len(phrases)) |->
                            Seg(phrases[k], labels[k], energy, 500)],
         Energy     |-> [k \in 1..Len(beats) |-> energy],
         Highlights |-> highlights]

\* A track as TestTimelineSimulation builds it: beats from 0, four segments
\* at 0, dur/4, dur/2 and dur-30, no phrases, no key, no highlights.
TestTrack(dur, bpm10, energy) ==
    LET beats == BeatGrid(dur, bpm10)
    IN  [Filepath   |-> "fake",
         Duration   |-> dur,
         BPM        |-> bpm10,
         Key        |-> <<>>,
         BeatTimes  |-> beats,
         Phrases    |-> <<>>,
         Segments   |-> << Seg(0, "Intro", 400, 0), Seg(dur \div 4, "Verse", 600, 0),
                           Seg(dur \div 2, "Chorus", 900, 0),
                           Seg(dur - Sec(30), "Outro", 300, 0) >>,
         Energy     |-> [k \in 1..Len(beats) |-> energy],
         Highlights |-> <<>>]

KeyCMajor  == <<"C", " ", "M", "a", "j", "o", "r">>
KeyGMajor  == <<"G", " ", "M", "a", "j", "o", "r">>
KeyAMinor  == <<"A", " ", "M", "i", "n", "o", "r">>
KeyFsMinor == <<"F", "#", " ", "M", "i", "n", "o", "r">>

TrackLib ==
    << \* 1: 64 s at 60 BPM, two phrases
       GridTrack("a.mp3", 64, 600, KeyCMajor, <<"Intro", "Chorus">>, 600, <<>>),
       \* 2: 128 s at 60 BPM, four phrases
       GridTrack("b.mp3", 128, 600, KeyCMajor,
                 <<"Intro", "Verse", "Chorus", "Outro">>, 600, <<>>),
       \* 3: 64 s at 60 BPM, in a distant key
       GridTrack("c.mp3", 64, 600, KeyFsMinor, <<"Intro", "Chorus">>, 600, <<>>),
       \* 4, 5: 64 s, an intro and an outro only, tempos 12 BPM apart
       GridTrack("d.mp3", 64, 600, KeyGMajor, <<"Intro", "Outro">>, 500, <<>>),
       GridTrack("e.mp3", 64, 750, KeyGMajor, <<"Intro", "Outro">>, 500, <<>>),
       \* 6: 96 s at 60 BPM with two highlight windows
       GridTrack("f.mp3", 96, 600, KeyAMinor, <<"Intro", "Verse", "Outro">>, 700,
                 << Hl(Sec(16), Sec(80), 900), Hl(Sec(0), Sec(64), 800) >>),
       \* 7..9: as in the timeline simulation
       TestTrack(1600004, 973, 650),
       TestTrack(2000007, 1200, 650),
       TestTrack(2400005, 1250, 650),
       \* 10: an analysis that carries the filepath of track 1, quieter
       GridTrack("a.mp3", 64, 600, KeyCMajor, <<"Intro", "Chorus">>, 200, <<>>) >>

TA(id) == TrackLib[id]

-----------------------------------------------------------------------------
(* sortPlaylist                                                            *)

\* preEnergy[t.Filepath] = avgEnergy(t), a later track overwriting an earlier
\* one of the same filepath.
preEnergyOf(all) ==
    [fp \in {TA(all[k]).Filepath : k \in 1..Len(all)} |->
        LET last == CHOOSE k \in 1..Len(all) :
                        /\ TA(all[k]).Filepath = fp
                        /\ \A j \in (k + 1)..Len(all) : TA(all[j]).Filepath # fp
        IN  avgEnergy(TA(all[last]))]

\* The score of candidate t after current (srt is the order so far).
sortScore(srt, t, all) ==
    LET current      == TA(srt[Len(srt)])
        targetEnergy == idealEnergy(Len(srt), Len(all))
        keyDist      == camelotDistance(current.Key, t.Key)
        keyScore     == Max(0, 60 - keyDist) * 1000
        bpmScore     == Max(0, 20000 - 100 * Abs(t.BPM - current.BPM))
        tE           == preEnergyOf(all)[t.Filepath]
        arcScore     == Max(0, 20000 - 20 * Abs(tE - targetEnergy))
        trend        == IF Len(srt) >= 2
                        THEN current.BPM - TA(srt[Len(srt) - 1]).BPM ELSE 0
        bonus        == IF Len(srt) >= 2
                           /\ \/ (trend > 0 /\ t.BPM > current.BPM)
                              \/ (trend < 0 /\ t.BPM < current.BPM)
                        THEN 5000 ELSE 0
    IN  keyScore + bpmScore + arcScore + bonus

RECURSIVE sortLoop(_, _, _)
sortLoop(srt, remaining, all) ==
    IF Len(remaining) = 0 THEN srt
    ELSE LET scores  == [k \in 1..Len(remaining) |->
                            sortScore(srt, TA(remaining[k]), all)]
             bestIdx == FirstMax(scores)
         IN  sortLoop(Append(srt, remaining[bestIdx]),
                      RemoveAt(remaining, bestIdx), all)

sortPlaylist(tr) ==
    IF Len(tr) = 0 THEN tr ELSE sortLoop(<<tr[1]>>, Tail(tr), tr)

-----------------------------------------------------------------------------
(* Random draws.  rand.Float64() and rand.Intn() are inputs of the planner: *)
(* the model draws them from the sets below.                                *)

\* rand.Float64() in selectTransitionType, in thousandths.
RandLevels == {0, 500, 999}

\* rand.Float64() * 0.01 in selectBest, in thousandths.
JitterLevels == {0, 9}

\* The candidate lists explored for a pair whose loop body has the outcomes D:
\* the lists whose draws all agree and, when D has at most MaxMixedDraws
\* elements, the lists of two different draws (first half, second half).
MaxMixedDraws == 6

DrawStreams(D, count) ==
    {[k \in 1..count |-> d] : d \in D}
    \cup (IF Cardinality(D) <= MaxMixedDraws
          THEN {[k \in 1..count |-> IF k <= count \div 2 THEN d[1] ELSE d[2]] :
                    d \in D \X D}
          ELSE {})

\* The re-picks of the "avoid Outro->Intro" loop that the model follows.
MaxRepicks == 1

-----------------------------------------------------------------------------
(* Candidate generation                                                    *)

Lookup(m, k) == IF k \in DOMAIN m THEN m[k] ELSE 0

DefaultTypeWeights ==
    ( "crossfade" :> 500 @@ "bass_swap" :> 1600 @@ "cut" :> 1200
   @@ "filter_fade" :> 1000 @@ "mashup" :> 1000 )

DefaultBarWeights == ( 4 :> 1000 @@ 8 :> 1300 )

\* weightedIntKeys: each key of m, int(round(w * 10)) times and at least once
\* (key -> multiplicity); the single key 8 for an empty map.
weightedIntKeys(m) ==
    IF DOMAIN m = {} THEN ( 8 :> 1 )
    ELSE [k \in DOMAIN m |-> Max(1, RoundDiv(m[k] * 10, 1000))]

\* bars[rand.Intn(len(bars))]
PickedBarsOutcomes(barW) ==
    LET bars == weightedIntKeys(barW) IN {k \in DOMAIN bars : bars[k] >= 1}

clampF(v, lo, hi) == IF v < lo THEN lo ELSE IF v > hi THEN hi ELSE v

\* The index (1-based) of the first element of q nearest to x
\* ("if d < bestD" keeps the earlier of two equally near elements).
RECURSIVE MinDist(_, _, _, _)
MinDist(q, x, lo, hi) ==
    IF lo = hi THEN Abs(q[lo] - x)
    ELSE LET mid == (lo + hi) \div 2
         IN  Min(MinDist(q, x, lo, mid), MinDist(q, x, mid + 1, hi))

Nearest(q, x) ==
    LET m == MinDist(q, x, 1, Len(q))
    IN  CHOOSE k \in 1..Len(q) :
            /\ Abs(q[k] - x) = m
            /\ \A j \in 1..(k - 1) : Abs(q[j] - x) > m

snapGrid(timeSec, beats, grid) ==
    IF Len(beats) = 0 THEN timeSec
    ELSE LET best == Nearest(beats, timeSec) - 1
             s0   == RoundDiv(best, grid) * grid
             s1   == IF s0 >= Len(beats) THEN ((Len(beats) - 1) \div grid) * grid ELSE s0
             s2   == IF s1 < 0 THEN 0 ELSE s1
             s3   == IF s2 >= Len(beats) THEN Len(beats) - 1 ELSE s2
         IN  beats[s3 + 1]

snapToPhrase(timeSec, phrases, beats, grid) ==
    IF Len(phrases) > 0 /\ Abs(phrases[Nearest(phrases, timeSec)] - timeSec) < Sec(15)
    THEN phrases[Nearest(phrases, timeSec)]
    ELSE snapGrid(timeSec, beats, grid)

\* The segments of a label in labels and a vocal energy of at most vocalCap, in order.
RECURSIVE SelectLabelled(_, _, _)
SelectLabelled(segs, labels, vocalCap) ==
    IF segs = <<>> THEN <<>>
    ELSE LET rest == SelectLabelled(Tail(segs), labels, vocalCap)
         IN  IF Head(segs).Label \in labels /\ Head(segs).VocalEnergy <= vocalCap
             THEN <<Head(segs)>> \o rest ELSE rest

\* pickSegment: the segments it can return (the draw is rand.Intn).
pickSegment(segs, labels) ==
    LET quiet == SelectLabelled(segs, labels, 600)
        pool  == IF Len(quiet) = 0 THEN SelectLabelled(segs, labels, 1000000) ELSE quiet
    IN  IF Len(pool) = 0 /\ Len(segs) > 0 THEN Range(segs)
        ELSE IF Len(pool) = 0 THEN {Seg(0, "Verse", 500, 0)}
        ELSE Range(pool)

ExitLabels  == {"Chorus", "Verse", "Bridge", "Outro"}
EntryLabels == {"Intro", "Verse", "Chorus", "Bridge"}

\* The first highlight of the greatest score ("if h.Score > bestH.Score").
bestHighlight(hs) == hs[FirstMax([k \in 1..Len(hs) |-> hs[k].Score])]

\* selectTransitionType: the map of choices ...
transitionChoices(ta, tb, typeW) ==
    LET energyDiff == avgEnergy(tb) - avgEnergy(ta)
        keyDist    == camelotDistance(ta.Key, tb.Key)
        bpmDiff    == Abs(ta.BPM - tb.BPM)
        base       == ( "crossfade" :>
                          (IF "crossfade" \in DOMAIN typeW THEN typeW["crossfade"] ELSE 500) )
        favoured   == IF keyDist <= 10 /\ bpmDiff < 50 THEN {"mashup", "bass_swap"}
                      ELSE IF energyDiff > 200 THEN {"bass_swap"}
                      ELSE IF energyDiff < -200 THEN {"filter_fade"}
                      ELSE IF bpmDiff > 100 THEN {"cut"}
                      ELSE {}
    IN  [t \in (favoured \cap DOMAIN typeW) |-> typeW[t]] @@ base

\* ... and the types that can score highest for some draw of the variances
\* (w * (0.5 + rand.Float64()); among equal scores the map order decides).
selectTransitionType(ta, tb, typeW) ==
    LET choices == transitionChoices(ta, tb, typeW)
    IN  {t \in DOMAIN choices :
            \E r \in [DOMAIN choices -> RandLevels] :
                \A u \in DOMAIN choices :
                    choices[u] * (500 + r[u]) <= choices[t] * (500 + r[t])}

\* The exit and entry segments after the loop that avoids Outro->Intro:
\* a pair of that kind passes with probability 0.05 or is drawn again.
RECURSIVE repick(_, _, _, _, _)
repick(exitSeg, entrySeg, segsA, segsB, left) ==
    IF exitSeg.Label = "Outro" /\ entrySeg.Label = "Intro"
    THEN {<<exitSeg, entrySeg>>}
         \cup (IF left = 0 THEN {}
               ELSE UNION {repick(e, n, segsA, segsB, left - 1) :
                              e \in pickSegment(segsA, ExitLabels),
                              n \in pickSegment(segsB, EntryLabels)})
    ELSE {<<exitSeg, entrySeg>>}

\* One pass of the body of generateCandidates' loop: the TransitionSpecs it
\* can append.
candidateOutcomes(ta, tb, typeW, barW) ==
    LET segsA == IF Len(ta.Segments) = 0
                 THEN <<Seg(ta.Duration - Sec(30), "Outro", 500, 0)>> ELSE ta.Segments
        segsB == IF Len(tb.Segments) = 0
                 THEN <<Seg(0, "Intro", 500, 0)>> ELSE tb.Segments
        exits == (IF Len(ta.Highlights) > 0
                  THEN {Seg(bestHighlight(ta.Highlights).EndTime, "Highlight", 0, 0)}
                  ELSE {}) \cup pickSegment(segsA, ExitLabels)
        entryPts == (IF Len(tb.Highlights) > 0
                    THEN {Seg(bestHighlight(tb.Highlights).StartTime, "Highlight", 0, 0)}
                    ELSE {}) \cup pickSegment(segsB, EntryLabels)
        pairs == UNION {repick(e, n, segsA, segsB, MaxRepicks) : e \in exits, n \in entryPts}
    IN  {[Type     |-> tType,
          Name     |-> <<tType, p[1].Label, p[2].Label>>,
          Duration |-> RoundDiv(pickedBars * 4 * 60 * TicksPerSec * 20, ta.BPM + tb.BPM),
          AOutTime |-> clampF(snapToPhrase(p[1].Time + Sec(20), ta.Phrases, ta.BeatTimes, 16),
                              0, ta.Duration),
          BInTime  |-> clampF(snapToPhrase(p[2].Time, tb.Phrases, tb.BeatTimes, 16),
                              0, tb.Duration),
          SpeedA   |-> 1000,
          SpeedB   |-> 1000] :
            tType \in selectTransitionType(ta, tb, typeW),
            pickedBars \in PickedBarsOutcomes(barW),
            p \in pairs}

\* A generateCandidates whose loop stops one candidate early.
generateCandidates_OneShort(ta, tb, typeW, barW, count) ==
    DrawStreams(candidateOutcomes(ta, tb, typeW, barW), count - 1)

\* generateCandidates: the lists of count candidates it can return.
generateCandidates(ta, tb, typeW, barW, count) ==
    DrawStreams(candidateOutcomes(ta, tb, typeW, barW), count)

\* A score whose penalty is 0.5 instead of 500.
selectScore_SmallPenalty(c, typeW, minExit, jit) ==
    LET w0      == Lookup(typeW, c.Type)
        w       == IF w0 = 0 THEN 1000 ELSE w0
        penalty == IF c.AOutTime < minExit + Sec(4) THEN -500 ELSE 0
    IN  w + penalty + jit

\* selectBest: the score of candidate c with tie-break draw jit ...
selectScore(c, typeW, minExit, jit) ==
    LET w0      == Lookup(typeW, c.Type)
        w       == IF w0 = 0 THEN 1000 ELSE w0
        penalty == IF c.AOutTime < minExit + Sec(4) THEN -500000 ELSE 0
    IN  w + penalty + jit

\* ... and the candidates that can come first after the descending sort, for
\* some draw of the tie-breaks; Nil for an empty list.
selectBest(cands, typeW, minExit) ==
    IF Len(cands) = 0 THEN {Nil}
    ELSE {cands[k] : k \in
            {k \in 1..Len(cands) :
                \E jit \in [1..Len(cands) -> JitterLevels] :
                    \A m \in 1..Len(cands) :
                        selectScore(cands[m], typeW, minExit, jit[m])
                            <= selectScore(cands[k], typeW, minExit, jit[k])}}

-----------------------------------------------------------------------------
(* POST /plan: handlePlan and GenerateMixPlan                              *)

\* generateCandidates(sorted[i], sorted[i+1], typeWeights, barWeights, 8)
CandidatesPerPair == 8

DefaultScenarios == 5

EmptyPlan == [SortedTracks |-> <<>>, Candidates |-> <<>>, Selections |-> <<>>]

\* The requests the model plans: a track list (cut to its first MaxTracks
\* tracks), the weights and the number of scenarios.
MaxTracks == 3

Req(tr, tw, bw, n) == [Tracks |-> tr, TypeWeights |-> tw, BarWeights |-> bw, Scenarios |-> n]

PlanRequests ==
    { Req(<<1, 2, 3>>, MapOf(( "crossfade" :> 1000 )), MapOf(( 8 :> 1000 )), 1),
      Req(<<4, 5, 4, 5, 4>>, NilMap, MapOf(( 8 :> 1000 )), 0),
      Req(<<1, 4>>, NilMap, NilMap, 2),
      Req(<<6, 2, 6>>, MapOf(( "crossfade" :> 1000 )), MapOf(( 4 :> 1000 )), 1),
      Req(<<3, 2, 1>>, MapOf(( "crossfade" :> 1000 )), MapOf(( 8 :> 1000 )), 1),
      Req(<<3, 10, 1>>, MapOf(( "crossfade" :> 1000 )), MapOf(( 8 :> 1000 )), 1) }

Prefix(q, n) == SubSeq(q, 1, Min(n, Len(q)))

InitPlanVars(req, n, who) ==
    /\ caller = who
    /\ tracks = Prefix(req.Tracks, n)
    /\ typeWeights = req.TypeWeights
    /\ barWeights = req.BarWeights
    /\ numScenarios = req.Scenarios
    /\ pc = "start"
    /\ sorted = <<>>
    /\ s = 0
    /\ i = 0
    /\ scenarioScore = 0
    /\ scenarioCands = <<>>
    /\ scenarioSels = <<>>
    /\ minExitTime = 0
    /\ bestScore = NegInf
    /\ bestSelections = <<>>
    /\ bestCandidates = <<>>
    /\ plan = Nil
    /\ response = Nil

\* GenerateMixPlan up to its scenario loop: the early return for fewer than
\* two tracks, the ordering, the default weights and scenario count.
\* (handlePlan replaces a scenario count <= 0 by 5 before the call, as
\* GenerateMixPlan does.)
PlanBegin ==
    /\ pc = "start"
    /\ IF Len(tracks) < 2
       THEN /\ plan' = EmptyPlan
            /\ pc' = "returned"
            /\ UNCHANGED <<sorted, typeWeights, barWeights, numScenarios>>
       ELSE /\ sorted' = sortPlaylist(tracks)
            /\ typeWeights' = IF typeWeights.isNil THEN MapOf(DefaultTypeWeights)
                              ELSE typeWeights
            /\ barWeights' = IF barWeights.isNil THEN MapOf(DefaultBarWeights)
                             ELSE barWeights
            /\ numScenarios' = IF numScenarios <= 0 THEN DefaultScenarios ELSE numScenarios
            /\ pc' = "pairs"
            /\ plan' = plan
    /\ UNCHANGED <<caller, tracks, s, i, scenarioScore, scenarioCands, scenarioSels,
                   minExitTime, bestScore, bestSelections, bestCandidates, response>>
    /\ UNCHANGED <<simVars, renderVars, clampVars, auxVars>>

\* The body of the pair loop: eight candidates, the best of them.
PlanPair ==
    /\ pc = "pairs"
    /\ s < numScenarios
    /\ i < Len(sorted) - 1
    /\ \E cands \in generateCandidates(TA(sorted[i + 1]), TA(sorted[i + 2]),
                                       typeWeights.m, barWeights.m, CandidatesPerPair) :
       \E best \in selectBest(cands, typeWeights.m, minExitTime) :
          /\ IF best # Nil
             THEN /\ scenarioScore' = scenarioScore + Lookup(typeWeights.m, best.Type)
                  /\ scenarioSels' = Append(scenarioSels, best)
                  /\ minExitTime' = best.BInTime
             ELSE UNCHANGED <<scenarioScore, scenarioSels, minExitTime>>
          /\ scenarioCands' = Append(scenarioCands, cands)
    /\ i' = i + 1
    /\ UNCHANGED <<caller, tracks, typeWeights, barWeights, numScenarios, pc, sorted, s,
                   bestScore, bestSelections, bestCandidates, plan, response>>
    /\ UNCHANGED <<simVars, renderVars, clampVars, auxVars>>

\* The end of a scenario: keep it when its score is greater than the best.
ScenarioEnd ==
    /\ pc = "pairs"
    /\ s < numScenarios
    /\ i = Len(sorted) - 1
    /\ IF GtF(Fin(scenarioScore), bestScore)
       THEN /\ bestScore' = Fin(scenarioScore)
            /\ bestSelections' = scenarioSels
            /\ bestCandidates' = scenarioCands
       ELSE UNCHANGED <<bestScore, bestSelections, bestCandidates>>
    /\ s' = s + 1
    /\ i' = 0
    /\ scenarioScore' = 0
    /\ scenarioCands' = <<>>
    /\ scenarioSels' = <<>>
    /\ minExitTime' = 0
    /\ UNCHANGED <<caller, tracks, typeWeights, barWeights, numScenarios, pc, sorted,
                   plan, response>>
    /\ UNCHANGED <<simVars, renderVars, clampVars, auxVars>>

PlanReturn ==
    /\ pc = "pairs"
    /\ s = numScenarios
    /\ plan' = [SortedTracks |-> sorted, Candidates |-> bestCandidates,
                Selections |-> bestSelections]
    /\ pc' = "returned"
    /\ UNCHANGED <<caller, tracks, typeWeights, barWeights, numScenarios, sorted, s, i,
                   scenarioScore, scenarioCands, scenarioSels, minExitTime,
                   bestScore, bestSelections, bestCandidates, response>>
    /\ UNCHANGED <<simVars, renderVars, clampVars, auxVars>>

\* handlePlan after the call: the plan is encoded into a PlanResponse, the
\* status is the default 200 and the Error field stays empty.
HandlePlanRespond ==
    /\ caller = "http"
    /\ pc = "returned"
    /\ response' = [status |-> 200, Plan |-> plan, Error |-> ""]
    /\ pc' = "responded"
    /\ UNCHANGED <<caller, tracks, typeWeights, barWeights, numScenarios, sorted, s, i,
                   scenarioScore, scenarioCands, scenarioSels, minExitTime,
                   bestScore, bestSelections, bestCandidates, plan>>
    /\ UNCHANGED <<simVars, renderVars, clampVars, auxVars>>

-----------------------------------------------------------------------------
(* Play bounds and the renderer's clamps                                   *)

\* firstStart: the first highlight, else the first Intro/Verse segment,
\* snapped to the nearest beat; 0 when it lies past half the track.
RECURSIVE firstIntroVerse(_)
firstIntroVerse(segs) ==
    IF Len(segs) = 0 THEN 0
    ELSE IF segs[1].Label \in {"Intro", "Verse"} THEN segs[1].Time
    ELSE firstIntroVerse(Tail(segs))

firstStart(ta) ==
    LET a0 == IF Len(ta.Highlights) > 0 THEN ta.Highlights[1].StartTime
              ELSE firstIntroVerse(ta.Segments)
        a1 == IF Len(ta.BeatTimes) > 0 /\ a0 > 0 THEN ta.BeatTimes[Nearest(ta.BeatTimes, a0)] ELSE a0
    IN  IF 2 * a1 > ta.Duration THEN 0 ELSE a1

\* pl: a sequence of [Filename, Analysis]; trs: TransitionSpecs.
ComputePlayBounds(pl, trs) ==
    [k \in 1..Len(pl) |->
        LET ta  == pl[k].Analysis
            dur == ta.Duration
            bIn == IF k - 1 <= Len(trs) /\ k > 1
                   THEN trs[k - 1].BInTime ELSE 0
            b1  == IF bIn < 0 THEN 0 ELSE bIn
            b2  == IF b1 > dur - Sec(15) THEN Max(0, dur - Sec(15)) ELSE b1
        IN  [Filepath  |-> ta.Filepath,
             Filename  |-> pl[k].Filename,
             Duration  |-> dur,
             BPM       |-> ta.BPM,
             PlayStart |-> IF k = 1 THEN firstStart(ta) ELSE b2,
             PlayEnd   |-> dur]]

\* A clamp with the 15 s guard only.
clampPlayBounds_GuardOnly(startSec, endSec, duration) ==
    LET e0 == IF endSec <= 0 THEN duration ELSE endSec
        s0 == IF startSec < 0 THEN 0 ELSE startSec
        s2 == IF s0 >= e0 - Sec(15) THEN Max(0, e0 - Sec(15)) ELSE s0
    IN  <<s2, e0>>

\* clampPlayBounds: <<startSec, endSec>> after the 30 s minimum and the 15 s guard.
clampPlayBounds(startSec, endSec, duration) ==
    LET e0 == IF endSec <= 0 THEN duration ELSE endSec
        s0 == IF startSec < 0 THEN 0 ELSE startSec
        needed == Sec(30) - (e0 - s0)
        short  == e0 - s0 < Sec(30)
        e1 == IF ~short THEN e0 ELSE IF e0 + needed <= duration THEN e0 + needed
              ELSE duration
        s1 == IF ~short \/ e0 + needed <= duration THEN s0 ELSE Max(0, e1 - Sec(30))
        s2 == IF s1 >= e1 - Sec(15) THEN Max(0, e1 - Sec(15)) ELSE s1
    IN  <<s2, e1>>

\* int(math.Round(seconds * 1000.0)) and int(seconds * 1000.0)
RoundMs(t) == RoundDiv(t, TicksPerMs)
TruncMs(t) == TruncDiv(t, TicksPerMs)

\* The two-bar musical minimum of the crossfade, in ms (BPMs in tenths).
MinXfadeFloorMs == 8000
FallbackBPM == 1200
minXfadeMs(bpmPrev, bpmCur) ==
    LET sum == IF bpmPrev + bpmCur <= 0 THEN 2 * FallbackBPM ELSE bpmPrev + bpmCur
    IN  Max(MinXfadeFloorMs, RoundDiv(2 * 4 * 60 * 1000 * 20, sum))

maxByPrev(prevMs) == prevMs - 1000
maxByB(chunkTheory) == TruncMs(chunkTheory) - 5000
\* A cap of one half of the shorter chunk.
maxBy40pct_Half(prevMs, chunkTheory) ==
    TruncDiv(Min(prevMs * TicksPerMs, chunkTheory) * 5, 10 * TicksPerMs)

maxBy40pct(prevMs, chunkTheory) ==
    TruncDiv(Min(prevMs * TicksPerMs, chunkTheory) * 4, 10 * TicksPerMs)

\* A cap is applied only when it is positive.
CapBy(x, cap) == IF x > cap /\ cap > 0 THEN cap ELSE x

\* A clamp chain that lacks the forty-percent cap.
clampXfade_No40pct(transDuration, bpmPrev, bpmCur, prevMs, chunkTheory) ==
    LET x0 == Max(RoundMs(transDuration), minXfadeMs(bpmPrev, bpmCur))
        x1 == CapBy(x0, maxByPrev(prevMs))
        x2 == CapBy(x1, maxByB(chunkTheory))
    IN  Max(x2, 0)

\* Step 1 of the renderer's main loop: the crossfade actually applied.
clampXfade(transDuration, bpmPrev, bpmCur, prevMs, chunkTheory) ==
    LET x0 == Max(RoundMs(transDuration), minXfadeMs(bpmPrev, bpmCur))
        x1 == CapBy(x0, maxByPrev(prevMs))
        x2 == CapBy(x1, maxByB(chunkTheory))
        x3 == CapBy(x2, maxBy40pct(prevMs, chunkTheory))
    IN  Max(x3, 0)

-----------------------------------------------------------------------------
(* TestTimelineSimulation                                                  *)

\* The bounds of the test's loop: no 30 s minimum, only the 15 s guard.
simBounds(tt) ==
    LET e0 == IF tt.PlayEnd <= 0 THEN tt.Duration ELSE tt.PlayEnd
        s0 == IF tt.PlayStart < 0 THEN 0 ELSE tt.PlayStart
        s1 == IF s0 >= e0 - Sec(15) THEN Max(0, e0 - Sec(15)) ELSE s0
    IN  <<s1, e0>>

SimMinXfadeMs == 4000
simXfade(transDuration, prevChunkMs, chunk) ==
    LET x0 == Max(RoundMs(transDuration), SimMinXfadeMs)
        x1 == CapBy(x0, prevChunkMs - 1000)
        x2 == CapBy(x1, TruncMs(chunk) - 5000)
    IN  Max(x2, 0)

\* The playlists the test builds (ids of TestTracks of the library).
SimPlaylists == { <<7, 8, 9>>, <<9, 7>>, <<8, 9, 8>> }

SimComputePlayBounds ==
    /\ caller = "test"
    /\ pc = "returned"
    /\ entries' = ComputePlayBounds(
                     [k \in 1..Len(plan.SortedTracks) |->
                         [Filename |-> <<"Track", k>>, Analysis |-> TA(plan.SortedTracks[k])]],
                     plan.Selections)
    /\ pc' = "timeline"
    /\ simI' = 1
    /\ UNCHANGED <<simOffsetMs, simPrevChunkMs, simExpected, simNegative, simFloored,
                   simFailed, rlOffsetMs, rlPrevChunkMs, rlExpected, rlNegative, rlFloored>>
    /\ UNCHANGED <<caller, tracks, typeWeights, barWeights, numScenarios, sorted, s, i,
                   scenarioScore, scenarioCands, scenarioSels, minExitTime,
                   bestScore, bestSelections, bestCandidates, plan, response>>
    /\ UNCHANGED <<renderVars, clampVars, auxVars>>

\* A timeline loop that appends each chunk without rewinding by the crossfade.
SimStep_NoRewind ==
    /\ pc = "timeline"
    /\ simI <= Len(entries)
    /\ LET tt     == entries[simI]
           sb     == simBounds(tt)
           chunk  == sb[2] - sb[1]
           hasX   == simI > 1 /\ simI - 1 <= Len(plan.Selections)
           xf     == IF hasX
                     THEN simXfade(plan.Selections[simI - 1].Duration, simPrevChunkMs, chunk)
                     ELSE 0
           rb     == clampPlayBounds(tt.PlayStart, tt.PlayEnd, tt.Duration)
           theory == rb[2] - rb[1]
           rx     == IF simI > 1
                     THEN clampXfade(plan.Selections[simI - 1].Duration,
                                     entries[simI - 1].BPM, tt.BPM, rlPrevChunkMs, theory)
                     ELSE 0
       IN  /\ simNegative' = (simNegative \/ chunk < 0)
           /\ simExpected' = simExpected + chunk - xf * TicksPerMs
           /\ simFloored' = (simFloored \/ (hasX /\ simOffsetMs - xf < 0))
           /\ simPrevChunkMs' = RoundMs(chunk)
           /\ simOffsetMs' = simOffsetMs + RoundMs(chunk)
           /\ rlNegative' = (rlNegative \/ theory < 0)
           /\ rlExpected' = rlExpected + theory - rx * TicksPerMs
           /\ rlFloored' = (rlFloored \/ (simI > 1 /\ rlOffsetMs - rx < 0))
           /\ rlPrevChunkMs' = RoundMs(theory)
           /\ rlOffsetMs' = rlOffsetMs + RoundMs(theory)
    /\ simI' = simI + 1
    /\ UNCHANGED <<entries, simFailed>>
    /\ UNCHANGED planVars
    /\ UNCHANGED <<renderVars, clampVars, auxVars>>

\* One iteration of the timeline loop, as the test writes it (sim...) and as
\* RenderFinalMix writes it (rl...), the decoded length being the rounded
\* theoretical length in both.
SimStep ==
    /\ pc = "timeline"
    /\ simI <= Len(entries)
    /\ LET tt     == entries[simI]
           sb     == simBounds(tt)
           chunk  == sb[2] - sb[1]
           hasX   == simI > 1 /\ simI - 1 <= Len(plan.Selections)
           xf     == IF hasX
                     THEN simXfade(plan.Selections[simI - 1].Duration, simPrevChunkMs, chunk)
                     ELSE 0
           rb     == clampPlayBounds(tt.PlayStart, tt.PlayEnd, tt.Duration)
           theory == rb[2] - rb[1]
           rx     == IF simI > 1
                     THEN clampXfade(plan.Selections[simI - 1].Duration,
                                     entries[simI - 1].BPM, tt.BPM, rlPrevChunkMs, theory)
                     ELSE 0
       IN  /\ simNegative' = (simNegative \/ chunk < 0)
           /\ simExpected' = simExpected + chunk - xf * TicksPerMs
           /\ simFloored' = (simFloored \/ (hasX /\ simOffsetMs - xf < 0))
           /\ simPrevChunkMs' = RoundMs(chunk)
           /\ simOffsetMs' = Max(simOffsetMs - xf, 0) + RoundMs(chunk)
           /\ rlNegative' = (rlNegative \/ theory < 0)
           /\ rlExpected' = rlExpected + theory - rx * TicksPerMs
           /\ rlFloored' = (rlFloored \/ (simI > 1 /\ rlOffsetMs - rx < 0))
           /\ rlPrevChunkMs' = RoundMs(theory)
           /\ rlOffsetMs' = Max(rlOffsetMs - rx, 0) + RoundMs(theory)
    /\ simI' = simI + 1
    /\ UNCHANGED <<entries, simFailed>>
    /\ UNCHANGED planVars
    /\ UNCHANGED <<renderVars, clampVars, auxVars>>

\* After the loop: the run fails on a drift above 0.05 s or a negative chunk.
DriftLimit == 500
SimDrift == Abs(simOffsetMs * TicksPerMs - simExpected)
RlDrift == Abs(rlOffsetMs * TicksPerMs - rlExpected)

SimVerdict ==
    /\ pc = "timeline"
    /\ simI = Len(entries) + 1
    /\ simFailed' = (SimDrift > DriftLimit \/ simNegative)
    /\ pc' = "verdict"
    /\ UNCHANGED <<entries, simI, simOffsetMs, simPrevChunkMs, simExpected, simNegative,
                   simFloored, rlOffsetMs, rlPrevChunkMs, rlExpected, rlNegative, rlFloored>>
    /\ UNCHANGED <<caller, tracks, typeWeights, barWeights, numScenarios, sorted, s, i,
                   scenarioScore, scenarioCands, scenarioSels, minExitTime,
                   bestScore, bestSelections, bestCandidates, plan, response>>
    /\ UNCHANGED <<renderVars, clampVars, auxVars>>

-----------------------------------------------------------------------------
(* RenderFinalMix: audio, canvas and formatting                            *)

\* A normalized WAV: its count of int16 samples and the first 100 ms block,
\* counted back from the end of the file, that is louder than -40 dBFS
\* (0: there is none).
Wav(total, firstLoud) == [total |-> total, firstLoud |-> firstLoud]

\* trimSilenceEnd: the effective duration, in ticks; 0 for a file of no samples.
chunkSamples == 4410 * 2
trimSilenceEnd(wav) ==
    IF wav.total <= 0 THEN 0
    ELSE LET b   == wav.firstLoud
             eff == IF b >= 1 /\ wav.total - chunkSamples * b >= 0
                    THEN wav.total - chunkSamples * (b - 1)
                    ELSE wav.total
         IN  (eff * 50) \div 441

\* The float32 count ffmpeg writes for "atrim=start=%.3f:end=%.3f" at
\* 44100 Hz stereo, when the input covers the window.
ChunkFloats(startSec, endSec) ==
    LET durMs == Max(RoundMs(endSec) - RoundMs(startSec), 0)
    IN  2 * ((durMs * 441 + 9) \div 10)

\* The lengths a decoded chunk can have: the whole window, or a window cut
\* short by ShortfallMs because the input ends early.
ShortfallMs == 37
DecodeLengths(startSec, endSec) ==
    { ChunkFloats(startSec, endSec),
      ChunkFloats(startSec, endSec - ShortfallMs * TicksPerMs) }

\* pcmFloatCount * 1000 / (44100 * 2)
ChunkMs(pcmFloatCount) == (pcmFloatCount * 10) \div 882

\* An overlay index that counts frames, not interleaved floats.
offsetSamples_Frames(offsetMs) == (offsetMs * 441) \div 10

\* int(float64(currentOffsetMs) / 1000.0 * 44100.0) * 2
offsetSamples(offsetMs) == ((offsetMs * 441) \div 10) * 2

\* The canvas is kept as runs [n, v, fade]: n consecutive floats whose value
\* is the sum v of the chunks laid over them, chunk k of the playlist having
\* the sample value 2^(k-1); fade marks the runs the end fade-out scaled.
Run(n, v, fade) == [n |-> n, v |-> v, fade |-> fade]

CanvasLen(c) == SumSeq([k \in 1..Len(c) |-> c[k].n])

RunStart(c, k) == SumSeq([j \in 1..(k - 1) |-> c[j].n])

\* c with a run boundary at position p.
RECURSIVE Cut(_, _)
Cut(c, p) ==
    IF Len(c) = 0 \/ p <= 0 THEN c
    ELSE IF p >= c[1].n THEN <<c[1]>> \o Cut(Tail(c), p - c[1].n)
    ELSE <<[c[1] EXCEPT !.n = p], [c[1] EXCEPT !.n = @ - p]>> \o Tail(c)

\* c with adjacent equal runs joined.
RECURSIVE Compact(_)
Compact(c) ==
    IF Len(c) <= 1 THEN c
    ELSE IF c[1].v = c[2].v /\ c[1].fade = c[2].fade
         THEN Compact(<<[c[1] EXCEPT !.n = @ + c[2].n]>> \o Tail(Tail(c)))
         ELSE <<c[1]>> \o Compact(Tail(c))

\* An overlay that stores the chunk's samples over what the canvas holds.
Overlay_Assign(c, offset, count, v) ==
    LET len   == CanvasLen(c)
        grown == IF len < offset + count
                 THEN Append(c, Run(offset + count - len, 0, FALSE)) ELSE c
        cut   == Cut(Cut(grown, offset), offset + count)
    IN  Compact([k \in 1..Len(cut) |->
                    IF RunStart(cut, k) >= offset /\ RunStart(cut, k) < offset + count
                    THEN [cut[k] EXCEPT !.v = v] ELSE cut[k]])

\* Step 6: grow the canvas to offset + count and add the chunk's samples.
Overlay(c, offset, count, v) ==
    LET len   == CanvasLen(c)
        grown == IF len < offset + count
                 THEN Append(c, Run(offset + count - len, 0, FALSE)) ELSE c
        cut   == Cut(Cut(grown, offset), offset + count)
    IN  Compact([k \in 1..Len(cut) |->
                    IF RunStart(cut, k) >= offset /\ RunStart(cut, k) < offset + count
                    THEN [cut[k] EXCEPT !.v = @ + v] ELSE cut[k]])

\* The end fade-out over the last 3 seconds of the canvas.
FadeFloats == 3 * 44100 * 2
EndFadeout(c) ==
    LET len      == CanvasLen(c)
        fadeLen  == Min(FadeFloats, len)
        startIdx == len - fadeLen
        cut      == Cut(c, startIdx)
    IN  Compact([k \in 1..Len(cut) |->
                    IF RunStart(cut, k) >= startIdx
                    THEN [cut[k] EXCEPT !.fade = TRUE] ELSE cut[k]])

\* The chunks (bits of v) heard in run r.
RECURSIVE Bits(_, _)
Bits(v, k) == IF v = 0 THEN {} ELSE (IF v % 2 = 1 THEN {k} ELSE {}) \cup Bits(v \div 2, k + 1)

ChunksHeard(c) == UNION {Bits(c[k].v, 1) : k \in 1..Len(c)}

\* filepath.Ext: the suffix from the last dot of the name.
RECURSIVE LastDot(_, _)
LastDot(name, k) ==
    IF k = 0 \/ name[k] = "/" THEN 0
    ELSE IF name[k] = "." THEN k ELSE LastDot(name, k - 1)

Ext(name) ==
    LET d == LastDot(name, Len(name))
    IN  IF d = 0 THEN <<>> ELSE SubSeq(name, d, Len(name))

TrimSuffix(name, suffix) ==
    IF Len(suffix) <= Len(name)
       /\ SubSeq(name, Len(name) - Len(suffix) + 1, Len(name)) = suffix
    THEN SubSeq(name, 1, Len(name) - Len(suffix)) ELSE name

\* float64(ms) / 1000.0 against ms / 1000: -1 when the float64 quotient is
\* below the exact one, 1 when above, 0 when the quotient is exact.  The
\* quotient has 53 significant bits, so its last bit weighs 2^-k.
RECURSIVE Pow2Mod1000(_)
Pow2Mod1000(k) == IF k = 0 THEN 1 ELSE (2 * Pow2Mod1000(k - 1)) % 1000

RECURSIVE FloorLog2(_)
FloorLog2(n) == IF n <= 1 THEN 0 ELSE 1 + FloorLog2(n \div 2)

RECURSIVE ShiftsTo1000(_)
ShiftsTo1000(ms) == IF ms >= 1000 THEN 0 ELSE 1 + ShiftsTo1000(2 * ms)

FloatErrSign(ms) ==
    LET k   == IF ms >= 1000 THEN 52 - FloorLog2(ms \div 1000) ELSE 52 + ShiftsTo1000(ms)
        rem == ((ms % 1000) * Pow2Mod1000(k)) % 1000
    IN  IF rem = 0 THEN 0 ELSE IF rem < 500 THEN -1 ELSE 1

\* "[%02d:%05.2f]" of an offset: the minutes, and the seconds field in
\* hundredths (correctly rounded from the float64, ties to even).
lrcStamp(offsetMs) ==
    LET m    == (offsetMs \div 1000) \div 60
        rest == offsetMs - m * 60000
        base == rest \div 10
        r    == rest % 10
        sgn  == IF offsetMs = 0 THEN 0 ELSE FloatErrSign(offsetMs)
        up   == \/ r > 5
                \/ r = 5 /\ sgn = 1
                \/ r = 5 /\ sgn = 0 /\ base % 2 = 1
    IN  [Min |-> m, Centis |-> IF up THEN base + 1 ELSE base]

\* One line of the sidecar.
lrcLine(ts) ==
    [Stamp |-> lrcStamp(ts.OffsetMs), Name |-> TrimSuffix(ts.Name, Ext(ts.Name))]

-----------------------------------------------------------------------------
(* RenderFinalMix: the state machine                                       *)

Entry(fp, name, dur, bpm10, loud, ps, pe) ==
    [Filepath |-> fp, Filename |-> name, Duration |-> dur, BPM |-> bpm10,
     LoudnessDB |-> loud, PlayStart |-> ps, PlayEnd |-> pe]

Tr(type, duration) == [Type |-> type, Duration |-> duration]

SrcPath(k) == <<"src", k>>
WavPath(k) == <<"norm", k>>
PcmPath(k) == <<"chunk", k>>
FinalPcmPath == <<"final_canvas", 0>>
OutputPath == <<"mix.mp3", 0>>
LrcPath == <<"mix.lrc", 0>>

IsTemp(f) == f[1] \in {"norm", "chunk", "final_canvas"}

NameA == <<"A", ".", "m", "p", "3">>
NameB == <<"B", ".", "v", "2", ".", "m", "p", "3">>
NameC == <<"C">>

\* The render requests of the model: the playlist, the WAV ffmpeg makes of
\* each track, the transitions.
Job(pl, md, trs) == [Playlist |-> pl, Media |-> md, Transitions |-> trs]

RenderJobs ==
    { \* two long tracks, the second with 5 s of trailing silence
      Job(<< Entry(SrcPath(1), NameA, 1803750, 1200, -140, 0, 0),
             Entry(SrcPath(2), NameB, Sec(200), 1250, -90, Sec(32), Sec(200)) >>,
          << Wav(15909076, 1), Wav(17640000, 51) >>,
          << Tr("crossfade", Sec(16)) >>),
      \* three 45 s tracks
      Job(<< Entry(SrcPath(1), NameA, Sec(45), 1280, -140, 0, 0),
             Entry(SrcPath(2), NameB, Sec(45), 1280, -140, Sec(8), 0),
             Entry(SrcPath(3), NameC, Sec(45), 1280, -300, Sec(8), Sec(40)) >>,
          << Wav(3969000, 1), Wav(3969000, 1), Wav(3969000, 1) >>,
          << Tr("cut", 0), Tr("bass_swap", 75000) >>),
      \* tracks shorter than the minimum chunk, tempo unknown
      Job(<< Entry(SrcPath(1), NameC, Sec(12), 0, 0, 0, 0),
             Entry(SrcPath(2), NameA, Sec(20), 0, 0, 0, 0),
             Entry(SrcPath(3), NameB, Sec(40), 600, 0, Sec(4), 0) >>,
          << Wav(1058400, 1), Wav(1764000, 0), Wav(3528000, 1) >>,
          << Tr("filter_fade", Sec(4)), Tr("mashup", Sec(32)) >>),
      \* two 45 s tracks and a planned crossfade of 30 s
      Job(<< Entry(SrcPath(1), NameB, Sec(45), 1280, -140, 0, 0),
             Entry(SrcPath(2), NameC, Sec(45), 1240, -120, 0, 0) >>,
          << Wav(3969000, 1), Wav(3969000, 1) >>,
          << Tr("crossfade", Sec(30)) >>),
      \* a 45 s track whose trailing 20 s are silent, then a 45 s track
      Job(<< Entry(SrcPath(1), NameA, Sec(45), 1280, -140, 0, 0),
             Entry(SrcPath(2), NameC, Sec(45), 1280, -140, 0, 0) >>,
          << Wav(3969000, 201), Wav(3969000, 1) >>,
          << Tr("crossfade", Sec(8)) >>),
      \* a playlist with no transitions
      Job(<< Entry(SrcPath(1), NameA, Sec(45), 1280, -140, 0, 0),
             Entry(SrcPath(2), NameB, Sec(45), 1280, -140, 0, 0) >>,
          << Wav(3969000, 1), Wav(3969000, 1) >>,
          << >>),
      \* a single track
      Job(<< Entry(SrcPath(1), NameA, Sec(45), 1280, -140, 0, 0) >>,
          << Wav(3969000, 1) >>,
          << >>) }

\* normSem := make(chan struct{}, 4)
NormSlots == 4

\* The failures of ffmpeg and of the file system followed in one render.
MaxFaults == 2

ZeroNormResult == [wavPath |-> <<>>, playEnd |-> 0, ok |-> FALSE]
ZeroFade == [EntryFade |-> 0, EntryType |-> "", ExitFade |-> 0, ExitType |-> ""]
NoResult == [returned |-> FALSE, mp3 |-> "", lrc |-> "", err |-> ""]
Returned3(mp3, lrcPath, err) == [returned |-> TRUE, mp3 |-> mp3, lrc |-> lrcPath, err |-> err]

InitRenderVars(job) ==
    /\ rpc = "start"
    /\ playlist = job.Playlist
    /\ transitions = job.Transitions
    /\ media = job.Media
    /\ normState = [k \in 1..Len(job.Playlist) |-> "waiting"]
    /\ normResults = [k \in 1..Len(job.Playlist) |-> ZeroNormResult]
    /\ wavMap = <<>>
    /\ fades = <<>>
    /\ ri = 0
    /\ currentOffsetMs = 0
    /\ prevActualChunkMs = 0
    /\ canvas = <<>>
    /\ trackStarts = <<>>
    /\ files = {}
    /\ result = NoResult
    /\ lrc = <<>>
    /\ faults = 0
    /\ overlays = <<>>
    /\ xfades = <<>>

\* The guard on the playlist, then one goroutine per track.
RenderBegin ==
    /\ rpc = "start"
    /\ IF Len(playlist) < 2
       THEN /\ result' = Returned3("", "", "need at least 2 tracks")
            /\ rpc' = "done"
       ELSE /\ rpc' = "norm"
            /\ result' = result
    /\ UNCHANGED <<playlist, transitions, media, normState, normResults, wavMap, fades, ri,
                   currentOffsetMs, prevActualChunkMs, canvas, trackStarts, files, lrc,
                   faults, overlays, xfades>>
    /\ UNCHANGED <<planVars, simVars, clampVars, auxVars>>

\* A normalization goroutine takes a slot of the semaphore.
NormStart(idx) ==
    /\ rpc = "norm"
    /\ normState[idx] = "waiting"
    /\ Cardinality({k \in DOMAIN normState : normState[k] = "running"}) < NormSlots
    /\ normState' = [normState EXCEPT ![idx] = "running"]
    /\ UNCHANGED <<rpc, playlist, transitions, media, normResults, wavMap, fades, ri,
                   currentOffsetMs, prevActualChunkMs, canvas, trackStarts, files, result,
                   lrc, faults, overlays, xfades>>
    /\ UNCHANGED <<planVars, simVars, clampVars, auxVars>>

\* Its ffmpeg run ends: on success the result is recorded with the trimmed
\* end; on failure nothing is recorded (ffmpeg may have left a partial file).
NormFinish(idx) ==
    /\ rpc = "norm"
    /\ normState[idx] = "running"
    /\ \/ /\ normResults' = [normResults EXCEPT ![idx] =
                                [wavPath |-> WavPath(idx),
                                 playEnd |-> trimSilenceEnd(media[idx]),
                                 ok |-> TRUE]]
          /\ files' = files \cup {WavPath(idx)}
          /\ faults' = faults
       \/ /\ faults < MaxFaults
          /\ faults' = faults + 1
          /\ \E partial \in BOOLEAN :
                files' = IF partial THEN files \cup {WavPath(idx)} ELSE files
          /\ normResults' = normResults
    /\ normState' = [normState EXCEPT ![idx] = "done"]
    /\ UNCHANGED <<rpc, playlist, transitions, media, wavMap, fades, ri,
                   currentOffsetMs, prevActualChunkMs, canvas, trackStarts, result,
                   lrc, overlays, xfades>>
    /\ UNCHANGED <<planVars, simVars, clampVars, auxVars>>

\* After normWg.Wait(): the results are applied in playlist order.
NormApply ==
    /\ rpc = "norm"
    /\ \A k \in DOMAIN normState : normState[k] = "done"
    /\ playlist' = [k \in DOMAIN playlist |->
                      LET res == normResults[k] IN
                      IF res.ok
                      THEN [playlist[k] EXCEPT
                              !.Filepath = res.wavPath,
                              !.PlayEnd = IF @ <= 0 \/ @ > res.playEnd THEN res.playEnd ELSE @]
                      ELSE playlist[k]]
    /\ wavMap' = LET oks == SelectSeq(normResults, LAMBDA r : r.ok)
                 IN  [k \in 1..Len(oks) |-> oks[k].wavPath]
    /\ rpc' = "prepass"
    /\ UNCHANGED <<transitions, media, normState, normResults, fades, ri,
                   currentOffsetMs, prevActualChunkMs, canvas, trackStarts, files, result,
                   lrc, faults, overlays, xfades>>
    /\ UNCHANGED <<planVars, simVars, clampVars, auxVars>>

\* A pre-pass whose previous length is never updated.
RECURSIVE prepassFades_StalePrev(_, _, _, _, _)
prepassFades_StalePrev(pl, trs, k, prevTheoryMs, fd) ==
    IF k > Len(pl) THEN fd
    ELSE LET t      == pl[k]
             b      == clampPlayBounds(t.PlayStart, t.PlayEnd, t.Duration)
             theory == b[2] - b[1]
             x      == clampXfade(trs[k - 1].Duration, pl[k - 1].BPM, t.BPM,
                                  prevTheoryMs, theory)
             fd1    == IF k > 1
                       THEN [fd EXCEPT ![k].EntryFade = x,
                                       ![k].EntryType = trs[k - 1].Type,
                                       ![k - 1].ExitFade = x,
                                       ![k - 1].ExitType = trs[k - 1].Type]
                       ELSE fd
         IN  prepassFades_StalePrev(pl, trs, k + 1, prevTheoryMs, fd1)

\* A pre-pass that records the entry fade of a track and forgets the exit
\* fade of the track before it.
RECURSIVE prepassFades_EntryOnly(_, _, _, _, _)
prepassFades_EntryOnly(pl, trs, k, prevTheoryMs, fd) ==
    IF k > Len(pl) THEN fd
    ELSE LET t      == pl[k]
             b      == clampPlayBounds(t.PlayStart, t.PlayEnd, t.Duration)
             theory == b[2] - b[1]
             x      == clampXfade(trs[k - 1].Duration, pl[k - 1].BPM, t.BPM,
                                  prevTheoryMs, theory)
             fd1    == IF k > 1
                       THEN [fd EXCEPT ![k].EntryFade = x,
                                       ![k].EntryType = trs[k - 1].Type]
                       ELSE fd
         IN  prepassFades_EntryOnly(pl, trs, k + 1, RoundMs(theory), fd1)

\* The pre-pass: entry and exit fades from the theoretical lengths.
RECURSIVE prepassFades(_, _, _, _, _)
prepassFades(pl, trs, k, prevTheoryMs, fd) ==
    IF k > Len(pl) THEN fd
    ELSE LET t      == pl[k]
             b      == clampPlayBounds(t.PlayStart, t.PlayEnd, t.Duration)
             theory == b[2] - b[1]
             x      == clampXfade(trs[k - 1].Duration, pl[k - 1].BPM, t.BPM,
                                  prevTheoryMs, theory)
             fd1    == IF k > 1
                       THEN [fd EXCEPT ![k].EntryFade = x,
                                       ![k].EntryType = trs[k - 1].Type,
                                       ![k - 1].ExitFade = x,
                                       ![k - 1].ExitType = trs[k - 1].Type]
                       ELSE fd
         IN  prepassFades(pl, trs, k + 1, RoundMs(theory), fd1)

\* transitions[i-1] is read for every track after the first: a shorter list
\* of transitions is an index out of range.
FadePrepass ==
    /\ rpc = "prepass"
    /\ IF Len(transitions) < Len(playlist) - 1
       THEN /\ rpc' = "panicked"
            /\ UNCHANGED <<fades, ri>>
       ELSE /\ fades' = prepassFades(playlist, transitions, 1, 0,
                                     [k \in DOMAIN playlist |-> ZeroFade])
            /\ ri' = 1
            /\ rpc' = "forward"
    /\ UNCHANGED <<playlist, transitions, media, normState, normResults, wavMap,
                   currentOffsetMs, prevActualChunkMs, canvas, trackStarts, files, result,
                   lrc, faults, overlays, xfades>>
    /\ UNCHANGED <<planVars, simVars, clampVars, auxVars>>

\* The record of Step 1 for track k: the crossfade applied and what bounded it.
XfadeRecord(k, xfadeMs, bpmPrev, bpmCur, prevMs, chunkTheory) ==
    [track |-> k, xfadeMs |-> xfadeMs, minMs |-> minXfadeMs(bpmPrev, bpmCur),
     prevMs |-> prevMs, theory |-> chunkTheory]

\* A skipped track that still gets its sidecar entry.
DecodeFails_WithEntry(off) ==
    /\ faults < MaxFaults
    /\ faults' = faults + 1
    /\ \E partial \in BOOLEAN :
          files' = IF partial THEN files \cup {PcmPath(ri)} ELSE files
    /\ currentOffsetMs' = off
    /\ trackStarts' = Append(trackStarts, [OffsetMs |-> off, Name |-> playlist[ri].Filename])
    /\ UNCHANGED <<prevActualChunkMs, canvas, overlays>>

\* "Warning: failed to extract PCM chunk": the track is skipped.  ffmpeg may
\* have left a partial chunk file.
DecodeFails(off) ==
    /\ faults < MaxFaults
    /\ faults' = faults + 1
    /\ \E partial \in BOOLEAN :
          files' = IF partial THEN files \cup {PcmPath(ri)} ELSE files
    /\ currentOffsetMs' = off
    /\ UNCHANGED <<prevActualChunkMs, canvas, trackStarts, overlays>>

\* "Warning: failed to read PCM chunk": the track is skipped, the chunk file stays.
ReadFails(off) ==
    /\ faults < MaxFaults
    /\ faults' = faults + 1
    /\ files' = files \cup {PcmPath(ri)}
    /\ currentOffsetMs' = off
    /\ UNCHANGED <<prevActualChunkMs, canvas, trackStarts, overlays>>

\* Steps 4 to 8: the sidecar entry, the overlay at offsetSamples, the removal
\* of the chunk file, the advance by the decoded length.
ChunkOverlaid(off, pcmFloatCount) ==
    /\ faults' = IF pcmFloatCount = 0 THEN faults + 1 ELSE faults
    /\ trackStarts' = Append(trackStarts, [OffsetMs |-> off, Name |-> playlist[ri].Filename])
    /\ canvas' = Overlay(canvas, offsetSamples(off), pcmFloatCount, 2 ^ (ri - 1))
    /\ overlays' = Append(overlays, [track |-> ri, offsetMs |-> off,
                                     offsetSamples |-> offsetSamples(off),
                                     count |-> pcmFloatCount])
    /\ files' = files
    /\ prevActualChunkMs' = ChunkMs(pcmFloatCount)
    /\ currentOffsetMs' = off + ChunkMs(pcmFloatCount)

\* One iteration of the main loop: the crossfade clamp and the rewind, then
\* the decode of the chunk, which fails, cannot be read back, or is overlaid
\* (an empty chunk counts among the failures followed).
ForwardTrack ==
    /\ rpc = "forward"
    /\ ri <= Len(playlist)
    /\ LET t      == playlist[ri]
           b      == clampPlayBounds(t.PlayStart, t.PlayEnd, t.Duration)
           theory == b[2] - b[1]
           xf     == IF ri > 1
                     THEN clampXfade(transitions[ri - 1].Duration, playlist[ri - 1].BPM,
                                     t.BPM, prevActualChunkMs, theory)
                     ELSE 0
           off    == Max(currentOffsetMs - xf, 0)
       IN  /\ xfades' = IF ri > 1
                        THEN Append(xfades, XfadeRecord(ri, xf, playlist[ri - 1].BPM, t.BPM,
                                                        prevActualChunkMs, theory))
                        ELSE xfades
           /\ \/ DecodeFails(off)
              \/ ReadFails(off)
              \/ \E pcmFloatCount \in DecodeLengths(b[1], b[2]) \cup
                                      (IF faults < MaxFaults THEN {0} ELSE {}) :
                    ChunkOverlaid(off, pcmFloatCount)
    /\ ri' = ri + 1
    /\ UNCHANGED <<rpc, playlist, transitions, media, normState, normResults, wavMap, fades,
                   result, lrc>>
    /\ UNCHANGED <<planVars, simVars, clampVars, auxVars>>

\* After the loop: the end fade-out, then the master canvas is written.
WriteMaster ==
    /\ rpc = "forward"
    /\ ri = Len(playlist) + 1
    /\ canvas' = EndFadeout(canvas)
    /\ \/ /\ files' = files \cup {FinalPcmPath}
          /\ rpc' = "encode"
          /\ UNCHANGED <<result, faults>>
       \/ /\ faults < MaxFaults
          /\ faults' = faults + 1
          /\ \E partial \in BOOLEAN :
                files' = IF partial THEN files \cup {FinalPcmPath} ELSE files
          /\ result' = Returned3("", "", "failed to drop master PCM to disk")
          /\ rpc' = "done"
    /\ UNCHANGED <<playlist, transitions, media, normState, normResults, wavMap, fades, ri,
                   currentOffsetMs, prevActualChunkMs, trackStarts, lrc, overlays, xfades>>
    /\ UNCHANGED <<planVars, simVars, clampVars, auxVars>>

\* The encode; on success the master PCM is removed, the sidecar written
\* (its write error is ignored), the WAVs removed, and the paths returned.
EncodeAndFinish ==
    /\ rpc = "encode"
    /\ \/ /\ faults < MaxFaults
          /\ faults' = faults + 1
          /\ \E partial \in BOOLEAN :
                files' = IF partial THEN files \cup {OutputPath} ELSE files
          /\ result' = Returned3("", "", "failed to encode final mp3")
          /\ lrc' = lrc
       \/ \E lrcWritten \in {TRUE} \cup (IF faults < MaxFaults THEN {FALSE} ELSE {}) :
          /\ faults' = IF lrcWritten THEN faults ELSE faults + 1
          /\ files' = ((files \cup {OutputPath}
                              \cup (IF lrcWritten THEN {LrcPath} ELSE {}))
                          \ {FinalPcmPath}) \ Range(wavMap)
          /\ lrc' = IF lrcWritten
                    THEN [k \in 1..Len(trackStarts) |-> lrcLine(trackStarts[k])]
                    ELSE lrc
          /\ result' = Returned3("mix.mp3", "mix.lrc", "")
    /\ rpc' = "done"
    /\ UNCHANGED <<playlist, transitions, media, normState, normResults, wavMap, fades, ri,
                   currentOffsetMs, prevActualChunkMs, canvas, trackStarts, overlays,
                   xfades>>
    /\ UNCHANGED <<planVars, simVars, clampVars, auxVars>>

-----------------------------------------------------------------------------
(* clampPlayBounds on its own                                              *)

ClampStarts == {Sec(-5), 0, Sec(10), Sec(20), 449999, Sec(100), Sec(170), Sec(190)}
ClampEnds == {Sec(-1), 0, Sec(10), Sec(30), Sec(45), 600001, Sec(180), Sec(200)}
ClampDurations == {0, Sec(5), Sec(10), 149999, Sec(15), Sec(20), 299999, Sec(30),
                   Sec(45), Sec(180)}

ClampApply ==
    /\ clampOut = Nil
    /\ clampIn # Nil
    /\ clampOut' = clampPlayBounds(clampIn.startSec, clampIn.endSec, clampIn.duration)
    /\ UNCHANGED clampIn
    /\ UNCHANGED <<planVars, simVars, renderVars, auxVars>>

-----------------------------------------------------------------------------
(* AnalyzeTrack, AnalyzeBatch and the analysis cache                        *)

\* The files on disk.  A file is the sequence of its blocks of 1 MiB (the
\* last one may be shorter); a path that does not exist has no file.
FileA   == <<"a1", "a2", "a3">>
FileB   == <<"b1">>
FileBad == <<"z1", "z2">>
NoFile  == <<>>

FileAt(path) ==
    CASE path = "a.mp3"      -> FileA
      [] path = "a_copy.mp3" -> FileA
      [] path = "b.mp3"      -> FileB
      [] path = "bad.mp3"    -> FileBad
      [] OTHER               -> NoFile

BatchPaths == {"a.mp3", "a_copy.mp3", "b.mp3", "bad.mp3", "gone.mp3"}

\* fileHash: the digest of the size, the first MiB and, for a file larger
\* than one MiB, the last MiB.  os.Stat fails for a path that does not exist.
fileHash(path) ==
    LET f == FileAt(path)
    IN  IF f = NoFile THEN [err |-> "stat", hash |-> <<>>]
        ELSE [err |-> "",
              hash |-> <<Len(f), f[1]>> \o (IF Len(f) > 1 THEN <<f[Len(f)]>> ELSE <<>>)]

Hashes == {fileHash(p).hash : p \in {q \in BatchPaths : FileAt(q) # NoFile}}

\* decodeToPCM: the samples ffmpeg decodes from the file, none when the file
\* is not audio ("no audio data decoded").
decodeToPCM(path) ==
    LET f == FileAt(path)
    IN  IF f = FileA THEN [err |-> "", samples |-> "pcmA"]
        ELSE IF f = FileB THEN [err |-> "", samples |-> "pcmB"]
        ELSE [err |-> "no audio data decoded", samples |-> ""]

\* The analysis pipeline on decoded samples: the fields of TrackAnalysis that
\* are computed from the audio.
Pipeline(samples) ==
    IF samples = "pcmA"
    THEN [Duration |-> Sec(212), BPM |-> 1280, Key |-> <<"A", " ", "M", "i", "n", "o", "r">>]
    ELSE [Duration |-> Sec(9), BPM |-> 1200, Key |-> <<"C", " ", "M", "a", "j", "o", "r">>]

TrackAnalysis(path, hash, a) ==
    [Filepath |-> path, Hash |-> hash, Duration |-> a.Duration, BPM |-> a.BPM, Key |-> a.Key]

ZeroTrackAnalysis ==
    [Filepath |-> "", Hash |-> <<>>, Duration |-> 0, BPM |-> 0, Key |-> <<>>]

\* The cache file of a hash: absent, truncated by a writer that has opened
\* it, or the JSON document json.MarshalIndent made of the struct.
Absent    == [state |-> "absent"]
Truncated == [state |-> "truncated"]
MarshalIndent(ta) ==
    [state |-> "json",
     doc |-> << <<"filepath", ta.Filepath>>, <<"hash", ta.Hash>>,
                <<"duration", ta.Duration>>, <<"bpm", ta.BPM>>, <<"key", ta.Key>> >>]

Field(doc, name) == (CHOOSE kv \in Range(doc) : kv[1] = name)[2]

\* loadCachedAnalysis: the read fails when the file is absent, the parse
\* fails on an empty document.
loadCachedAnalysis(bytes) ==
    IF bytes.state # "json" THEN [err |-> "load", ta |-> ZeroTrackAnalysis]
    ELSE [err |-> "",
          ta |-> [Filepath |-> Field(bytes.doc, "filepath"),
                  Hash     |-> Field(bytes.doc, "hash"),
                  Duration |-> Field(bytes.doc, "duration"),
                  BPM      |-> Field(bytes.doc, "bpm"),
                  Key      |-> Field(bytes.doc, "key")]]

\* The batches a caller requests one after the other.
BatchRuns ==
    { << <<"a.mp3", "a_copy.mp3", "b.mp3", "bad.mp3", "gone.mp3">> >>,
      << <<"a.mp3", "b.mp3">>, <<"a_copy.mp3", "a.mp3">> >>,
      << <<"a.mp3", "a_copy.mp3", "a.mp3">> >>,
      << <<"gone.mp3", "b.mp3", "bad.mp3">>, <<"b.mp3">> >> }

\* sem := make(chan struct{}, 4)
SemSlots == 4

InTrack == {"running", "hashed", "miss", "decoded", "saving"}

\* Slots that stay taken when AnalyzeTrack returned an error.
Holding_Leak ==
    {k \in DOMAIN gstate : gstate[k] \in InTrack \/ (gstate[k] = "done" /\ errors[k] # "")}

Holding == {k \in DOMAIN gstate : gstate[k] \in InTrack}

NoPrior == [known |-> FALSE, ta |-> ZeroTrackAnalysis]
Prior(ta) == [known |-> TRUE, ta |-> ta]

\* AnalyzeBatch is entered: the two arrays, one goroutine per path.
BatchEnter(paths) ==
    /\ bpaths = paths
    /\ bpc = "running"
    /\ gstate = [k \in 1..Len(paths) |-> "spawned"]
    /\ ghash = [k \in 1..Len(paths) |-> <<>>]
    /\ gta = [k \in 1..Len(paths) |-> ZeroTrackAnalysis]
    /\ results = [k \in 1..Len(paths) |-> ZeroTrackAnalysis]
    /\ errors = [k \in 1..Len(paths) |-> ""]
    /\ gprior = [k \in 1..Len(paths) |-> NoPrior]
    /\ gdecoded = [k \in 1..Len(paths) |-> FALSE]
    /\ gwrote = [k \in 1..Len(paths) |-> Absent]

InitBatchVars(run) ==
    /\ BatchEnter(run[1])
    /\ bqueue = Tail(run)
    /\ cache = [h \in Hashes |-> Absent]
    /\ bret = Nil
    /\ bfaults = 0
    /\ firstOk = [f \in {FileA, FileB, FileBad} |-> NoPrior]

\* The history of a call that ends: the first success for these bytes.
NoteResult(idx, ok, ta) ==
    LET f == FileAt(bpaths[idx])
    IN  firstOk' = IF ok /\ f # NoFile /\ ~firstOk[f].known
                   THEN [firstOk EXCEPT ![f] = Prior(ta)] ELSE firstOk

\* A goroutine that never waits for the semaphore.
GoAcquire_NoSem(idx) ==
    /\ bpc = "running"
    /\ gstate[idx] = "spawned"
    /\ gstate' = [gstate EXCEPT ![idx] = "running"]
    /\ gprior' = [gprior EXCEPT ![idx] =
                     IF FileAt(bpaths[idx]) = NoFile THEN NoPrior
                     ELSE firstOk[FileAt(bpaths[idx])]]
    /\ UNCHANGED <<bpc, bqueue, bpaths, ghash, gta, cache, results, errors, bret, bfaults,
                   gdecoded, gwrote, firstOk>>
    /\ UNCHANGED <<planVars, simVars, renderVars, clampVars, keyVars, lrcVars, beatVars, selVars>>

\* sem <- struct{}{}: the goroutine takes a slot and calls AnalyzeTrack.
GoAcquire(idx) ==
    /\ bpc = "running"
    /\ gstate[idx] = "spawned"
    /\ Cardinality(Holding) < SemSlots
    /\ gstate' = [gstate EXCEPT ![idx] = "running"]
    /\ gprior' = [gprior EXCEPT ![idx] =
                     IF FileAt(bpaths[idx]) = NoFile THEN NoPrior
                     ELSE firstOk[FileAt(bpaths[idx])]]
    /\ UNCHANGED <<bpc, bqueue, bpaths, ghash, gta, cache, results, errors, bret, bfaults,
                   gdecoded, gwrote, firstOk>>
    /\ UNCHANGED <<planVars, simVars, renderVars, clampVars, keyVars, lrcVars, beatVars, selVars>>

\* AnalyzeTrack: fileHash; its error ends the call.
GoHash(idx) ==
    /\ gstate[idx] = "running"
    /\ LET h == fileHash(bpaths[idx])
       IN  IF h.err # ""
           THEN /\ errors' = [errors EXCEPT ![idx] = "hash"]
                /\ gstate' = [gstate EXCEPT ![idx] = "done"]
                /\ ghash' = ghash
           ELSE /\ ghash' = [ghash EXCEPT ![idx] = h.hash]
                /\ gstate' = [gstate EXCEPT ![idx] = "hashed"]
                /\ errors' = errors
    /\ UNCHANGED <<bpc, bqueue, bpaths, gta, cache, results, bret, bfaults,
                   gprior, gdecoded, gwrote, firstOk>>
    /\ UNCHANGED <<planVars, simVars, renderVars, clampVars, keyVars, lrcVars, beatVars, selVars>>

\* AnalyzeTrack: loadCachedAnalysis; a hit is returned as it was stored.
GoLoad(idx) ==
    /\ gstate[idx] = "hashed"
    /\ LET c == loadCachedAnalysis(cache[ghash[idx]])
       IN  IF c.err = ""
           THEN /\ results' = [results EXCEPT ![idx] = c.ta]
                /\ gstate' = [gstate EXCEPT ![idx] = "done"]
                /\ NoteResult(idx, TRUE, c.ta)
           ELSE /\ gstate' = [gstate EXCEPT ![idx] = "miss"]
                /\ UNCHANGED <<results, firstOk>>
    /\ UNCHANGED <<bpc, bqueue, bpaths, ghash, gta, cache, errors, bret, bfaults,
                   gprior, gdecoded, gwrote>>
    /\ UNCHANGED <<planVars, simVars, renderVars, clampVars, keyVars, lrcVars, beatVars, selVars>>

\* AnalyzeTrack: decodeToPCM and the pipeline; a decode error ends the call.
GoDecode(idx) ==
    /\ gstate[idx] = "miss"
    /\ gdecoded' = [gdecoded EXCEPT ![idx] = TRUE]
    /\ LET d == decodeToPCM(bpaths[idx])
       IN  IF d.err # ""
           THEN /\ errors' = [errors EXCEPT ![idx] = "decode"]
                /\ gstate' = [gstate EXCEPT ![idx] = "done"]
                /\ gta' = gta
           ELSE /\ gta' = [gta EXCEPT ![idx] =
                             TrackAnalysis(bpaths[idx], ghash[idx], Pipeline(d.samples))]
                /\ gstate' = [gstate EXCEPT ![idx] = "decoded"]
                /\ errors' = errors
    /\ UNCHANGED <<bpc, bqueue, bpaths, ghash, cache, results, bret, bfaults,
                   gprior, gwrote, firstOk>>
    /\ UNCHANGED <<planVars, simVars, renderVars, clampVars, keyVars, lrcVars, beatVars, selVars>>

\* saveCachedAnalysis, first half: os.WriteFile opens the cache file and
\* truncates it.  When the directory cannot be made or the file cannot be
\* opened the error is dropped and AnalyzeTrack returns ta all the same.
GoSaveOpen(idx) ==
    /\ gstate[idx] = "decoded"
    /\ \/ /\ cache' = [cache EXCEPT ![ghash[idx]] = Truncated]
          /\ gstate' = [gstate EXCEPT ![idx] = "saving"]
          /\ UNCHANGED <<results, bfaults, firstOk>>
       \/ /\ bfaults < MaxFaults
          /\ bfaults' = bfaults + 1
          /\ cache' = cache
          /\ results' = [results EXCEPT ![idx] = gta[idx]]
          /\ gstate' = [gstate EXCEPT ![idx] = "done"]
          /\ NoteResult(idx, TRUE, gta[idx])
    /\ UNCHANGED <<bpc, bqueue, bpaths, ghash, gta, errors, bret, gprior, gdecoded, gwrote>>
    /\ UNCHANGED <<planVars, simVars, renderVars, clampVars, keyVars, lrcVars, beatVars, selVars>>

\* saveCachedAnalysis, second half: the document is written (or the write
\* fails and leaves the file as it is); AnalyzeTrack returns ta.
GoSaveWrite(idx) ==
    /\ gstate[idx] = "saving"
    /\ \/ /\ cache' = [cache EXCEPT ![ghash[idx]] = MarshalIndent(gta[idx])]
          /\ gwrote' = [gwrote EXCEPT ![idx] = MarshalIndent(gta[idx])]
          /\ bfaults' = bfaults
       \/ /\ bfaults < MaxFaults
          /\ bfaults' = bfaults + 1
          /\ UNCHANGED <<cache, gwrote>>
    /\ results' = [results EXCEPT ![idx] = gta[idx]]
    /\ gstate' = [gstate EXCEPT ![idx] = "done"]
    /\ NoteResult(idx, TRUE, gta[idx])
    /\ UNCHANGED <<bpc, bqueue, bpaths, ghash, gta, errors, bret, gprior, gdecoded>>
    /\ UNCHANGED <<planVars, simVars, renderVars, clampVars, keyVars, lrcVars, beatVars, selVars>>

\* After wg.Wait(): the errors are compacted, results is returned whole.
BatchReturn ==
    /\ bpc = "running"
    /\ \A k \in DOMAIN gstate : gstate[k] = "done"
    /\ bret' = [results |-> results, errs |-> SelectSeq(errors, LAMBDA e : e # "")]
    /\ bpc' = "returned"
    /\ UNCHANGED <<bqueue, bpaths, gstate, ghash, gta, cache, results, errors, bfaults,
                   gprior, gdecoded, gwrote, firstOk>>
    /\ UNCHANGED <<planVars, simVars, renderVars, clampVars, keyVars, lrcVars, beatVars, selVars>>

\* The caller requests its next batch; the cache directory stays.
BatchNext ==
    /\ bpc = "returned"
    /\ bqueue # <<>>
    /\ bpaths' = Head(bqueue)
    /\ bqueue' = Tail(bqueue)
    /\ bpc' = "running"
    /\ gstate' = [k \in 1..Len(Head(bqueue)) |-> "spawned"]
    /\ ghash' = [k \in 1..Len(Head(bqueue)) |-> <<>>]
    /\ gta' = [k \in 1..Len(Head(bqueue)) |-> ZeroTrackAnalysis]
    /\ results' = [k \in 1..Len(Head(bqueue)) |-> ZeroTrackAnalysis]
    /\ errors' = [k \in 1..Len(Head(bqueue)) |-> ""]
    /\ gprior' = [k \in 1..Len(Head(bqueue)) |-> NoPrior]
    /\ gdecoded' = [k \in 1..Len(Head(bqueue)) |-> FALSE]
    /\ gwrote' = [k \in 1..Len(Head(bqueue)) |-> Absent]
    /\ UNCHANGED <<cache, bret, bfaults, firstOk>>
    /\ UNCHANGED <<planVars, simVars, renderVars, clampVars, keyVars, lrcVars, beatVars, selVars>>

-----------------------------------------------------------------------------
(* camelotDistance on the keys the analyzer produces                       *)

noteNames == noteOrder

\* detectKey returns noteNames[rot] + " Major" or noteNames[rot] + " Minor".
MajorKey(rot) == noteNames[rot + 1] \o <<" ", "M", "a", "j", "o", "r">>
MinorKey(rot) == noteNames[rot + 1] \o <<" ", "M", "i", "n", "o", "r">>

detectKeyOutputs == {MajorKey(rot) : rot \in 0..11} \cup {MinorKey(rot) : rot \in 0..11}

\* The planner's key distance of two analyzed tracks.
KeyApply ==
    /\ keyIn # Nil
    /\ keyOut = Nil
    /\ keyOut' = [dist |-> camelotDistance(keyIn.k1, keyIn.k2)]
    /\ UNCHANGED keyIn
    /\ UNCHANGED <<planVars, simVars, renderVars, clampVars, batchVars, lrcVars, beatVars, selVars>>

-----------------------------------------------------------------------------
(* The sidecar line on its own                                             *)

\* The decimal digits of n >= 0.
RECURSIVE Digits(_)
Digits(n) ==
    IF n < 10 THEN <<CHOOSE d \in {"0", "1", "2", "3", "4", "5", "6", "7", "8", "9"} :
                        d = ToString(n)>>
    ELSE Digits(n \div 10) \o Digits(n % 10)

\* %0<w>d: zeros on the left up to the width, never fewer digits than n has.
RECURSIVE ZeroPad(_, _)
ZeroPad(ds, w) == IF Len(ds) >= w THEN ds ELSE ZeroPad(<<"0">> \o ds, w)

\* fmt.Sprintf("[%02d:%05.2f] %s\n", m, s, name), s given in hundredths.
lrcText(line) ==
    LET whole == Digits(line.Stamp.Centis \div 100)
        frac  == ZeroPad(Digits(line.Stamp.Centis % 100), 2)
    IN  <<"[">> \o ZeroPad(Digits(line.Stamp.Min), 2) \o <<":">>
        \o ZeroPad(whole \o <<".">> \o frac, 5) \o <<"]", " ">>
        \o line.Name \o <<"\n">>

LrcOffsets == (0..12) \cup (9994..10006) \cup (59990..60006) \cup {164375, 599995, 3599996}
              \cup (5999994..6000001)

LrcNames == {NameA, NameB, NameC}

\* One pass of the loop over trackStarts.
LrcApply ==
    /\ lrcIn # Nil
    /\ lrcOut = Nil
    /\ lrcOut' = [line |-> lrcLine(lrcIn), text |-> lrcText(lrcLine(lrcIn))]
    /\ UNCHANGED lrcIn
    /\ UNCHANGED <<planVars, simVars, renderVars, clampVars, batchVars, keyVars, beatVars, selVars>>

-----------------------------------------------------------------------------
(* estimateBeatTimes on its own                                            *)

\* 60.0 / bpm, in ticks.
beatPeriod(bpm10) == RoundDiv(60 * TicksPerSec * 10, IF bpm10 <= 0 THEN FallbackBPM ELSE bpm10)

\* float64(bestOnsetIdx) * float64(hopSize) / float64(sr), in ticks, for
\* hopSize = 512 and sr = 22050: 512 * 10000 / 22050 = 102400 / 441.
anchorTime(bestOnsetIdx) == RoundDiv(bestOnsetIdx * 102400, 441)

\* for t := anchorTime; t >= 0; t -= beatPeriod
RECURSIVE beatsBackward(_, _)
beatsBackward(t, p) == IF t >= 0 THEN <<RoundMs(t)>> \o beatsBackward(t - p, p) ELSE <<>>

\* for t := anchorTime + beatPeriod; t < duration; t += beatPeriod
RECURSIVE beatsForward(_, _, _)
beatsForward(t, p, duration) ==
    IF t < duration THEN <<RoundMs(t)>> \o beatsForward(t + p, p, duration) ELSE <<>>

\* A beat grid that is returned as it was generated.
estimateBeatTimes_Unsorted(bestOnsetIdx, duration, bpm10) ==
    LET p == beatPeriod(bpm10)
        a == anchorTime(bestOnsetIdx)
    IN  beatsBackward(a, p) \o beatsForward(a + p, p, duration)

\* The beat times, in milliseconds.
estimateBeatTimes(bestOnsetIdx, duration, bpm10) ==
    LET p == beatPeriod(bpm10)
        a == anchorTime(bestOnsetIdx)
    IN  SortSeq(beatsBackward(a, p) \o beatsForward(a + p, p, duration),
                LAMBDA x, y : x < y)

BeatBpms == {600, 935, 1200, 1273, 1280, 1437, 2000}
BeatOnsets == {0, 1, 3, 40, 100, 214}
BeatDurations == {Sec(1), 25601, 50698, Sec(6), 99289, 100698, Sec(12)}

\* The strongest onset lies at a frame of the envelope, and the envelope has
\* (n - frameSize) / hopSize frames: the anchor is below the duration.
BeatInputs ==
    {in \in [bpm : BeatBpms, onsetIdx : BeatOnsets, duration : BeatDurations] :
        anchorTime(in.onsetIdx) < in.duration}

BeatApply ==
    /\ beatIn # Nil
    /\ beatOut = Nil
    /\ beatOut' = [beats |-> estimateBeatTimes(beatIn.onsetIdx, beatIn.duration, beatIn.bpm)]
    /\ UNCHANGED beatIn
    /\ UNCHANGED <<planVars, simVars, renderVars, clampVars, batchVars, keyVars, lrcVars, selVars>>

-----------------------------------------------------------------------------
(* selectBest on its own: the candidates of one pair of tracks, drawn as   *)
(* generateCandidates draws them for the weights of the request, and the    *)
(* b_in_time of the previous selection.                                     *)

SelectPairs == { <<2, 1>>, <<2, 5>>, <<6, 5>>, <<1, 5>> }

SelectWeights ==
    { DefaultTypeWeights,
      ( "crossfade" :> 1000 ),
      ( "crossfade" :> -499000 @@ "cut" :> 0 @@ "bass_swap" :> 0 @@ "mashup" :> 0 ),
      ( "crossfade" :> 250000 @@ "cut" :> 749000 @@ "bass_swap" :> 749000
     @@ "mashup" :> 500000 ) }

SelectMinExits == { 0, Sec(60), Sec(70), Sec(90) }

\* Every list of two candidates that the loop of generateCandidates can
\* append for the pair.
SelectCands(pr, tw) ==
    LET D == candidateOutcomes(TA(pr[1]), TA(pr[2]), tw, DefaultBarWeights)
    IN  {<<c, d>> : c \in D, d \in D}

SelectInputs ==
    UNION { [pair : {pr}, typeW : {tw}, minExit : SelectMinExits,
             cands : SelectCands(pr, tw)] :
                pr \in SelectPairs, tw \in SelectWeights }

SelectApply ==
    /\ selIn # Nil
    /\ selOut = Nil
    /\ \E best \in selectBest(selIn.cands, selIn.typeW, selIn.minExit) :
          selOut' = [best |-> best]
    /\ UNCHANGED selIn
    /\ UNCHANGED <<planVars, simVars, renderVars, clampVars, batchVars, keyVars, lrcVars,
                   beatVars>>

-----------------------------------------------------------------------------
(* Initial states and specifications                                       *)

IdlePlanVars == InitPlanVars(Req(<<>>, NilMap, NilMap, 0), 0, "none")

IdleRenderVars == InitRenderVars(Job(<<>>, <<>>, <<>>))

IdleClampVars == clampIn = Nil /\ clampOut = Nil

IdleBatchVars ==
    /\ InitBatchVars(<< <<>> >>)

IdleKeyVars == keyIn = Nil /\ keyOut = Nil

IdleLrcVars == lrcIn = Nil /\ lrcOut = Nil

IdleBeatVars == beatIn = Nil /\ beatOut = Nil

IdleSelVars == selIn = Nil /\ selOut = Nil

InitSimVars ==
    /\ entries = <<>>
    /\ simI = 0
    /\ simOffsetMs = 0
    /\ simPrevChunkMs = 0
    /\ simExpected = 0
    /\ simNegative = FALSE
    /\ simFloored = FALSE
    /\ simFailed = FALSE
    /\ rlOffsetMs = 0
    /\ rlPrevChunkMs = 0
    /\ rlExpected = 0
    /\ rlNegative = FALSE
    /\ rlFloored = FALSE

InitPlan ==
    /\ \E req \in PlanRequests : \E n \in 0..MaxTracks : InitPlanVars(req, n, "http")
    /\ InitSimVars /\ IdleRenderVars /\ IdleClampVars
    /\ IdleBatchVars /\ IdleKeyVars /\ IdleLrcVars /\ IdleBeatVars /\ IdleSelVars

NextPlan == PlanBegin \/ PlanPair \/ ScenarioEnd \/ PlanReturn \/ HandlePlanRespond

SpecPlan == InitPlan /\ [][NextPlan]_vars

InitSim ==
    /\ \E pl \in SimPlaylists : InitPlanVars(Req(pl, NilMap, NilMap, 1), Len(pl), "test")
    /\ InitSimVars /\ IdleRenderVars /\ IdleClampVars
    /\ IdleBatchVars /\ IdleKeyVars /\ IdleLrcVars /\ IdleBeatVars /\ IdleSelVars

NextSim == PlanBegin \/ PlanPair \/ ScenarioEnd \/ PlanReturn
           \/ SimComputePlayBounds \/ SimStep \/ SimVerdict

SpecSim == InitSim /\ [][NextSim]_vars

InitRender ==
    /\ \E job \in RenderJobs : InitRenderVars(job)
    /\ IdlePlanVars /\ InitSimVars /\ IdleClampVars
    /\ IdleBatchVars /\ IdleKeyVars /\ IdleLrcVars /\ IdleBeatVars /\ IdleSelVars

MaxJobTracks == 3

NextRender == RenderBegin
              \/ (\E idx \in 1..MaxJobTracks : idx <= Len(playlist) /\ NormStart(idx))
              \/ (\E idx \in 1..MaxJobTracks : idx <= Len(playlist) /\ NormFinish(idx))
              \/ NormApply \/ FadePrepass \/ ForwardTrack \/ WriteMaster
              \/ EncodeAndFinish

SpecRender == InitRender /\ [][NextRender]_vars

InitClamp ==
    /\ clampIn \in [startSec : ClampStarts, endSec : ClampEnds, duration : ClampDurations]
    /\ clampOut = Nil
    /\ IdlePlanVars /\ InitSimVars /\ IdleRenderVars
    /\ IdleBatchVars /\ IdleKeyVars /\ IdleLrcVars /\ IdleBeatVars /\ IdleSelVars

NextClamp == ClampApply

SpecClamp == InitClamp /\ [][NextClamp]_vars

MaxBatchPaths == 5

InitBatch ==
    /\ \E run \in BatchRuns : InitBatchVars(run)
    /\ IdlePlanVars /\ InitSimVars /\ IdleRenderVars /\ IdleClampVars
    /\ IdleKeyVars /\ IdleLrcVars /\ IdleBeatVars /\ IdleSelVars

NextBatch == (\E idx \in 1..MaxBatchPaths : idx <= Len(bpaths) /\ GoAcquire(idx))
             \/ (\E idx \in 1..MaxBatchPaths : idx <= Len(bpaths) /\ GoHash(idx))
             \/ (\E idx \in 1..MaxBatchPaths : idx <= Len(bpaths) /\ GoLoad(idx))
             \/ (\E idx \in 1..MaxBatchPaths : idx <= Len(bpaths) /\ GoDecode(idx))
             \/ (\E idx \in 1..MaxBatchPaths : idx <= Len(bpaths) /\ GoSaveOpen(idx))
             \/ (\E idx \in 1..MaxBatchPaths : idx <= Len(bpaths) /\ GoSaveWrite(idx))
             \/ BatchReturn \/ BatchNext

SpecBatch == InitBatch /\ [][NextBatch]_vars

InitKeys ==
    /\ keyIn \in [k1 : detectKeyOutputs, k2 : detectKeyOutputs]
    /\ keyOut = Nil
    /\ IdlePlanVars /\ InitSimVars /\ IdleRenderVars /\ IdleClampVars
    /\ IdleBatchVars /\ IdleLrcVars /\ IdleBeatVars /\ IdleSelVars

NextKeys == KeyApply

SpecKeys == InitKeys /\ [][NextKeys]_vars

InitLrc ==
    /\ lrcIn \in [OffsetMs : LrcOffsets, Name : LrcNames]
    /\ lrcOut = Nil
    /\ IdlePlanVars /\ InitSimVars /\ IdleRenderVars /\ IdleClampVars
    /\ IdleBatchVars /\ IdleKeyVars /\ IdleBeatVars /\ IdleSelVars

NextLrc == LrcApply

SpecLrc == InitLrc /\ [][NextLrc]_vars

InitBeat ==
    /\ beatIn \in BeatInputs
    /\ beatOut = Nil
    /\ IdlePlanVars /\ InitSimVars /\ IdleRenderVars /\ IdleClampVars
    /\ IdleBatchVars /\ IdleKeyVars /\ IdleLrcVars /\ IdleSelVars

NextBeat == BeatApply

SpecBeat == InitBeat /\ [][NextBeat]_vars

\* The two worker pools with the scheduler's fairness: a goroutine that can
\* take a step takes one, and every subprocess call returns.  A request is
\* either a run of AnalyzeBatch or a render followed up to the end of its
\* normalization pre-pass.
MaxPoolItems == 5

PoolJobs ==
    RenderJobs \cup
    { Job([k \in 1..MaxPoolItems |-> Entry(SrcPath(k), NameA, Sec(45), 1280, -140, 0, 0)],
          [k \in 1..MaxPoolItems |-> Wav(3969000, 1)],
          [k \in 1..(MaxPoolItems - 1) |-> Tr("crossfade", Sec(8))]) }

InitPools ==
    /\ \/ (\E run \in BatchRuns : InitBatchVars(run)) /\ IdleRenderVars
       \/ (\E job \in PoolJobs : InitRenderVars(job)) /\ IdleBatchVars
    /\ IdlePlanVars /\ InitSimVars /\ IdleClampVars
    /\ IdleKeyVars /\ IdleLrcVars /\ IdleBeatVars /\ IdleSelVars

NextPools == NextBatch
             \/ RenderBegin
             \/ (\E idx \in 1..MaxPoolItems : idx <= Len(playlist) /\ NormStart(idx))
             \/ (\E idx \in 1..MaxPoolItems : idx <= Len(playlist) /\ NormFinish(idx))
             \/ NormApply

SpecPools == InitPools /\ [][NextPools]_vars /\ WF_vars(NextPools)

InitSelect ==
    /\ selIn \in SelectInputs
    /\ selOut = Nil
    /\ IdlePlanVars /\ InitSimVars /\ IdleRenderVars /\ IdleClampVars
    /\ IdleBatchVars /\ IdleKeyVars /\ IdleLrcVars /\ IdleBeatVars

NextSelect == SelectApply

SpecSelect == InitSelect /\ [][NextSelect]_vars

-----
(* Properties of the planner                                               *)

Returned == pc \in {"returned", "responded"}

\* C1: in every plan GenerateMixPlan returns, each selection exits its track
\* at least 4 s after the previous selection entered it:
\* selections[i].a_out_time >= selections[i-1].b_in_time + 4 s.
C1_Chronology ==
    Returned =>
        \A k \in 2..Len(plan.Selections) :
            plan.Selections[k].AOutTime >= plan.Selections[k - 1].BInTime + Sec(4)

\* C9: a plan for n >= 2 tracks has n-1 selections and n-1 candidate lists,
\* every list has exactly 8 candidates, and selections[i] is one of
\* candidates[i].
C9_PlanShape ==
    (Returned /\ Len(tracks) >= 2) =>
        /\ Len(plan.Selections) = Len(tracks) - 1
        /\ Len(plan.Candidates) = Len(tracks) - 1
        /\ \A k \in 1..Len(plan.Candidates) :
               /\ Len(plan.Candidates[k]) = CandidatesPerPair
               /\ plan.Selections[k] \in Range(plan.Candidates[k])

\* A plan of two transitions, kept among several scenarios, one of whose
\* candidate lists holds different candidates.
C9_Reached ==
    /\ pc = "returned"
    /\ numScenarios > 1
    /\ Len(plan.Selections) = 2
    /\ \E k \in 1..Len(plan.Candidates) : Cardinality(Range(plan.Candidates[k])) > 1

\* C10: a /plan request with fewer than two tracks is answered with a
\* PlanError: an error status or a non-empty error field.
C10_PlanErrorSurfaced ==
    (pc = "responded" /\ Len(tracks) < 2) =>
        (response.status # 200 \/ response.Error # "")

\* q without its first element equal to x.
RECURSIVE WithoutFirst(_, _)
WithoutFirst(q, x) ==
    IF Len(q) = 0 THEN q
    ELSE IF Head(q) = x THEN Tail(q)
    ELSE <<Head(q)>> \o WithoutFirst(Tail(q), x)

\* The tracks not yet placed when position k of the order is chosen, in the
\* order of the input.
RECURSIVE RemainingAt(_)
RemainingAt(k) ==
    IF k <= 2 THEN Tail(tracks) ELSE WithoutFirst(RemainingAt(k - 1), sorted[k - 1])

SeqBag(q) == [x \in Range(q) |-> Cardinality({k \in 1..Len(q) : q[k] = x})]

Sorted == pc # "start" /\ Len(tracks) >= 2

\* Position k holds the earliest of the best-scoring remaining tracks.
EarliestBest(k) ==
    LET rem    == RemainingAt(k)
        srt    == SubSeq(sorted, 1, k - 1)
        sc(j)  == sortScore(srt, TA(rem[j]), tracks)
        chosen == CHOOSE m \in 1..Len(rem) :
                      rem[m] = sorted[k] /\ \A j \in 1..(m - 1) : rem[j] # sorted[k]
    IN  /\ \A j \in 1..Len(rem) : sc(j) <= sc(chosen)
        /\ \A j \in 1..(chosen - 1) : sc(j) < sc(chosen)

OrderShape ==
    Sorted =>
        /\ Len(sorted) = Len(tracks)
        /\ SeqBag(sorted) = SeqBag(tracks)
        /\ sorted[1] = tracks[1]
        /\ \A k \in 2..Len(sorted) : EarliestBest(k)

C29_OwnEnergy ==
    Sorted =>
        \A k \in 1..Len(tracks) :
            preEnergyOf(tracks)[TA(tracks[k]).Filepath] = avgEnergy(TA(tracks[k]))

-----------------------------------------------------------------------------
(* Properties of the timeline simulation                                   *)

-----------------------------------------------------------------------------
(* Properties of clampPlayBounds                                           *)

ClampLength == clampOut[2] - clampOut[1]

\* C5 as stated: for every input the returned bounds span at least 15 s, and
\* at least 30 s when the duration is at least 30 s.
C5_AsStated ==
    clampOut # Nil =>
        /\ ClampLength >= Sec(15)
        /\ clampIn.duration >= Sec(30) => ClampLength >= Sec(30)

\* C5: the returned bounds span at least 30 s when the duration is at least
\* 30 s, and at least 15 s when the duration is at least 15 s; for a shorter
\* track whose requested window is under 30 s they are (0, duration).
C5_ClampMinimums ==
    clampOut # Nil =>
        /\ clampIn.duration >= Sec(30) => ClampLength >= Sec(30)
        /\ clampIn.duration >= Sec(15) => ClampLength >= Sec(15)
        /\ (/\ clampIn.duration < Sec(15)
            /\ (IF clampIn.endSec <= 0 THEN clampIn.duration ELSE clampIn.endSec)
                   - Max(clampIn.startSec, 0) < Sec(30))
              => clampOut = <<0, clampIn.duration>>

\* A window of 10 s inside a 180 s track, stretched to 30 s.
C5_Reached ==
    /\ clampOut # Nil
    /\ clampIn.duration = Sec(180)
    /\ clampIn.endSec - clampIn.startSec = Sec(10)
    /\ clampIn.startSec > 0
    /\ ClampLength = Sec(30)

-----------------------------------------------------------------------------
(* Properties of RenderFinalMix                                            *)

RenderSucceeded == rpc = "done" /\ result.returned /\ result.err = ""
SidecarWritten == RenderSucceeded /\ LrcPath \in files

\* The distance between the printed time of sidecar line k and the canvas
\* position of overlay k, in tenths of a frame (one frame is 1/44100 s).
StampErr(k) ==
    Abs((lrc[k].Stamp.Min * 60000 + lrc[k].Stamp.Centis * 10) * 441
        - (overlays[k].offsetSamples \div 2) * 10)

FiveMs == 5 * 441
OneFrame == 2 * 5

OffsetsAgree ==
    /\ Len(lrc) = Len(overlays)
    /\ \A k \in 1..Len(overlays) :
          /\ trackStarts[k].OffsetMs = overlays[k].offsetMs
          /\ overlays[k].offsetSamples = 2 * ((overlays[k].offsetMs * 441) \div 10)

TracksOverlaid == {overlays[k].track : k \in 1..Len(overlays)}

TracksWithSamples == {overlays[k].track : k \in {j \in 1..Len(overlays) : overlays[j].count > 0}}

\* The crossfade records of the pairs (i-1, i) whose two tracks were overlaid.
RenderedPairs ==
    {k \in 1..Len(xfades) : {xfades[k].track - 1, xfades[k].track} \subseteq TracksWithSamples}

\* The three caps of record r of the forward pass.
CapPrev(r) == r.prevMs - 1000
CapCur(r) == TruncDiv(r.theory, TicksPerMs) - 5000
Cap40(r) == TruncDiv(Min(r.prevMs * TicksPerMs, r.theory) * 4, 10 * TicksPerMs)

C6_SidecarMatchesOverlays ==
    SidecarWritten =>
        /\ Len(lrc) = Len(overlays)
        /\ \A k \in 1..Len(lrc) :
              /\ k > 1 => overlays[k - 1].track < overlays[k].track
              /\ LET fn == playlist[overlays[k].track].Filename
                 IN  lrc[k].Name = SubSeq(fn, 1, Len(lrc[k].Name))
        /\ ChunksHeard(canvas) \subseteq TracksOverlaid
        /\ \A k \in 1..Len(overlays) :
              overlays[k].count > 0 => overlays[k].track \in ChunksHeard(canvas)

\* A mix of three tracks whose second track failed to decode.
C6_Reached ==
    /\ SidecarWritten
    /\ Len(playlist) = 3
    /\ TracksOverlaid = {1, 3}
    /\ ChunksHeard(canvas) = {1, 3}

\* C7: when fewer than 2 tracks were rendered into the canvas,
\* RenderFinalMix returns an error and reports no mix.
C7_InsufficientTracks ==
    (rpc = "done" /\ Cardinality(TracksOverlaid) < 2) => result.err # ""

\* C8: when RenderFinalMix has returned, none of the temp files it created
\* (norm_*.wav, chunk_*.pcm, final_canvas_*.pcm) exists.
C8_NoTempFilesLeft ==
    (rpc = "done" /\ result.returned) => \A f \in files : ~IsTemp(f)

\* C15: a track whose normalization failed in the pre-pass is skipped for
\* the rest of the job: no chunk of it is overlaid on the canvas and it gets
\* no timeline entry.
C15_NormFailureSkipsTrack ==
    \A k \in DOMAIN normResults :
        (normState[k] = "done" /\ ~normResults[k].ok) => k \notin TracksOverlaid

\* The value of canvas sample p (0-based).
RECURSIVE SampleAt(_, _)
SampleAt(c, p) ==
    IF Len(c) = 0 THEN 0
    ELSE IF p < c[1].n THEN c[1].v ELSE SampleAt(Tail(c), p - c[1].n)

Covers(o, p) == o.offsetSamples <= p /\ p < o.offsetSamples + o.count

\* The sum at sample p of the first n overlaid chunks.
RECURSIVE CoverSum(_, _)
CoverSum(p, n) ==
    IF n = 0 THEN 0
    ELSE (IF Covers(overlays[n], p) THEN 2 ^ (overlays[n].track - 1) ELSE 0)
         + CoverSum(p, n - 1)

OverlayEnds == {0} \cup {overlays[k].offsetSamples + overlays[k].count : k \in 1..Len(overlays)}

\* The samples next to the two ends of every overlaid chunk: between two
\* neighbours of this set the canvas and the sum of the chunks are constant.
EdgeSamples ==
    {p \in UNION {{o.offsetSamples - 1, o.offsetSamples,
                    o.offsetSamples + o.count - 1, o.offsetSamples + o.count} :
                   o \in Range(overlays)} : p >= 0}

\* C19: while the forward pass runs (before the end fade-out) every overlay
\* began at an even sample index, the canvas is as long as the furthest end
\* offset_samples + pcm_float_count of the overlaid chunks, and every canvas
\* sample is the sum of the samples of the chunks that cover it.  As this
\* holds before and after each overlay, an overlay never shrinks the canvas
\* and changes no sample outside its own range.
C19_CanvasIsSumOfOverlays ==
    rpc = "forward" =>
        /\ \A k \in 1..Len(overlays) : overlays[k].offsetSamples % 2 = 0
        /\ CanvasLen(canvas) = CHOOSE m \in OverlayEnds : \A e \in OverlayEnds : e <= m
        /\ \A p \in EdgeSamples :
               SampleAt(canvas, p) =
                  (IF p < CanvasLen(canvas) THEN CoverSum(p, Len(overlays)) ELSE 0)

\* Two chunks have been laid over each other: some samples hold the first
\* chunk alone, some the sum of both, some the second alone.
C19_Reached ==
    /\ rpc = "forward"
    /\ Len(overlays) = 2
    /\ {1, 3, 2} \subseteq {canvas[k].v : k \in 1..Len(canvas)}

\* C20: whenever int(0.4 * min(prev_actual_chunk_ms, current_theory_ms)) is
\* positive, the crossfade applied before a track of the forward pass is at
\* most 0.4 * min(prev_actual_chunk_ms, current_theory_ms).
C20_FortyPercentCap ==
    \A k \in 1..Len(xfades) :
        LET r == xfades[k] IN
        Cap40(r) > 0 =>
            r.xfadeMs * 10 * TicksPerMs <= 4 * Min(r.prevMs * TicksPerMs, r.theory)

\* Two chunks of 45 s with a planned crossfade of 30 s overlap by 18 s.
C20_Reached ==
    \E k \in 1..Len(xfades) :
        LET r == xfades[k] IN
        /\ r.prevMs = 45000 /\ r.theory = Sec(45)
        /\ transitions[r.track - 1].Duration = Sec(30)
        /\ r.xfadeMs = 18000

PrepassDone == rpc \in {"forward", "encode", "done"} /\ Len(fades) = Len(playlist)

\* C21: after the fade pre-pass every track after the first has the entry
\* fade and entry type that the track before it has as exit fade and exit
\* type, the type being that of the transition between them; the first
\* track has entry fade 0 and the last track has exit fade 0.
C21_FadesPaired ==
    (PrepassDone /\ Len(playlist) >= 2) =>
        /\ \A k \in 2..Len(playlist) :
               /\ fades[k].EntryFade = fades[k - 1].ExitFade
               /\ fades[k].EntryType = transitions[k - 1].Type
               /\ fades[k - 1].ExitType = transitions[k - 1].Type
        /\ fades[1].EntryFade = 0
        /\ fades[Len(playlist)].ExitFade = 0

\* The pre-pass of three tracks has set two different fades of two
\* different types.
C21_Reached ==
    /\ PrepassDone
    /\ Len(playlist) = 3
    /\ fades[2].EntryFade > 0 /\ fades[3].EntryFade > 0
    /\ fades[2].EntryFade # fades[3].EntryFade
    /\ fades[2].EntryType # fades[3].EntryType

\* The theoretical chunk length of track j, in ticks.
TheoryOf(j) ==
    LET b == clampPlayBounds(playlist[j].PlayStart, playlist[j].PlayEnd, playlist[j].Duration)
    IN  b[2] - b[1]

\* Track j was decoded and its chunk is as long as theory says.
DecodedAsPlanned(j) ==
    \E n \in 1..Len(overlays) :
        overlays[n].track = j /\ ChunkMs(overlays[n].count) = RoundMs(TheoryOf(j))

OriginalJob ==
    CHOOSE j \in RenderJobs :
        /\ j.Media = media /\ j.Transitions = transitions
        /\ Len(j.Playlist) = Len(playlist)
        /\ \A k \in 1..Len(playlist) : j.Playlist[k].Filename = playlist[k].Filename

\* The end of the last 100 ms block louder than -40 dBFS, in ticks.
HasLoudBlock(wav) == wav.firstLoud >= 1 /\ wav.total - chunkSamples * wav.firstLoud >= 0
LoudEnd(wav) == ((wav.total - chunkSamples * (wav.firstLoud - 1)) * 50) \div 441

ChunkEnd(t) == clampPlayBounds(t.PlayStart, t.PlayEnd, t.Duration)[2]

\* C25: for every normalized track, the end of the chunk that is rendered
\* after the normalization results are applied is not later than the end
\* that would have been rendered without trimming, and is at most the end of
\* the last 100 ms block whose RMS exceeds -40 dBFS.
C25_TrimOnlyLowers ==
    (rpc \notin {"start", "norm"} /\ Len(playlist) >= 2) =>
        \A k \in 1..Len(playlist) :
            normResults[k].ok =>
                /\ ChunkEnd(playlist[k]) <= ChunkEnd(OriginalJob.Playlist[k])
                /\ HasLoudBlock(media[k]) => ChunkEnd(playlist[k]) <= LoudEnd(media[k])

\* An iteration of the forward pass that overlaid nothing: the decode or
\* the read of track ri failed.
TrackFailed == rpc = "forward" /\ ri' = ri + 1 /\ overlays' = overlays

\* C26: when the decode or the read of a track's chunk fails, the forward
\* pass goes on with current_offset_ms, prev_actual_chunk_ms, the canvas and
\* the timeline entries as they were before the track was processed; the
\* crossfade of the failed track is not subtracted from the offset.
C26_FailureLeavesStateAlone ==
    [][TrackFailed =>
          /\ currentOffsetMs' = currentOffsetMs
          /\ prevActualChunkMs' = prevActualChunkMs
          /\ canvas' = canvas
          /\ trackStarts' = trackStarts]_vars

\* C27: the offsets recorded in the sidecar never decrease in playlist
\* order, whatever decodes fail and however long the chunks are: each entry
\* starts at or after the entry of the track overlaid before it.
C27_OffsetsNeverDecrease ==
    /\ \A k \in 2..Len(trackStarts) : trackStarts[k - 1].OffsetMs <= trackStarts[k].OffsetMs
    /\ \A k \in 2..Len(overlays) : overlays[k - 1].offsetMs <= overlays[k].offsetMs

-----------------------------------------------------------------------------
(* Properties of selectBest                                                *)

OnTime(c) == c.AOutTime >= selIn.minExit + Sec(4)

WeightsWithin499 ==
    \A t, u \in DOMAIN selIn.typeW : Abs(selIn.typeW[t] - selIn.typeW[u]) <= 499000

\* C23: when the type weights lie within 499 of each other and at least one
\* candidate has a_out_time >= minExit + 4 s, the candidate that selectBest
\* returns has a_out_time >= minExit + 4 s, whatever the tie-break draws.
C23_PenaltyDecides ==
    (selOut # Nil /\ WeightsWithin499
        /\ \E m \in 1..Len(selIn.cands) : OnTime(selIn.cands[m]))
            => OnTime(selOut.best)

\* A late candidate of a type that weighs more than the type of the
\* candidate selected, which is on time.
C23_Reached ==
    /\ selOut # Nil /\ WeightsWithin499
    /\ OnTime(selOut.best)
    /\ \E m \in 1..Len(selIn.cands) :
          /\ ~OnTime(selIn.cands[m])
          /\ Lookup(selIn.typeW, selIn.cands[m].Type) > Lookup(selIn.typeW, selOut.best.Type)

-----------------------------------------------------------------------------
(* Properties of AnalyzeBatch and the analysis cache                       *)

BatchReturned == bpc = "returned"

Succeeded(k) == errors[k] = ""

\* What the pipeline computes from the audio of a path.
AnalysisOf(path) == Pipeline(decodeToPCM(path).samples)

SameAnalysis(ta, a) == ta.Duration = a.Duration /\ ta.BPM = a.BPM /\ ta.Key = a.Key

C12_FailedPathsOmitted ==
    BatchReturned =>
        LET failed == {k \in 1..Len(bpaths) : ~Succeeded(k)}
        IN  /\ Len(bret.errs) = Cardinality(failed)
            /\ Len(bret.results) = Len(bpaths) - Cardinality(failed)
            /\ \A k \in 1..Len(bret.results) : bret.results[k] # ZeroTrackAnalysis

EqualButFilepath(t1, t2) == [t1 EXCEPT !.Filepath = ""] = [t2 EXCEPT !.Filepath = ""]

\* C13: once AnalyzeTrack has succeeded for a file, a later AnalyzeTrack on
\* a file with the same bytes does not invoke the decoder, does not write the
\* cache file, and returns the first result in every field but filepath; a
\* call that fails writes no cache file.
C13_CacheHitAfterSuccess ==
    \A k \in DOMAIN gstate :
        gstate[k] = "done" =>
            /\ gprior[k].known =>
                  /\ ~gdecoded[k]
                  /\ gwrote[k] = Absent
                  /\ Succeeded(k)
                  /\ EqualButFilepath(results[k], gprior[k].ta)
            /\ ~Succeeded(k) => gwrote[k] = Absent

\* C14: two AnalyzeTrack calls of one batch whose files have the same hash
\* and that both missed the cache write the same bytes to the cache file.
C14_WritersAgree ==
    \A j, k \in DOMAIN gstate :
        (j # k /\ ghash[j] = ghash[k] /\ gwrote[j] # Absent /\ gwrote[k] # Absent)
            => gwrote[j] = gwrote[k]

\* C28: the TrackAnalysis that AnalyzeTrack returns for a path carries that
\* path as its filepath, also when it is served from a cache entry that was
\* written while another path with the same bytes was analyzed.
C28_FilepathIsArgument ==
    \A k \in DOMAIN gstate :
        (gstate[k] = "done" /\ Succeeded(k)) => results[k].Filepath = bpaths[k]

-----------------------------------------------------------------------------
(* Properties of the two worker pools                                      *)

NormRunning == {k \in DOMAIN normState : normState[k] = "running"}

PoolsSafe ==
    /\ Cardinality(Holding) <= SemSlots
    /\ Cardinality(NormRunning) <= NormSlots
    /\ \A k \in DOMAIN gstate : gstate[k] = "done" => k \notin Holding
    /\ BatchReturned => (Holding = {} /\ \A k \in DOMAIN gstate : gstate[k] = "done")
    /\ rpc = "prepass" => \A k \in DOMAIN normState : normState[k] = "done"

\* C30: once every subprocess call returns, AnalyzeBatch and the
\* normalization pre-pass of the renderer terminate, for more items than
\* slots too: a worker that took one of the 4 slots gives it back when it
\* ends, with or without an error; the final wait returns only when every
\* worker has ended; and it does return, so that no worker is left waiting
\* for a slot.
C30_PoolsTerminate ==
    /\ []PoolsSafe
    /\ (bpc = "running") ~> (bpc = "returned")
    /\ (rpc = "norm") ~> (rpc = "prepass")

\* All four slots are taken, by workers of which one will fail, while a
\* fifth worker waits.
C30_Reached ==
    /\ bpc = "running"
    /\ Cardinality(Holding) = SemSlots
    /\ \E k \in DOMAIN gstate : gstate[k] = "spawned"
    /\ \E k \in Holding : FileAt(bpaths[k]) = NoFile

-----------------------------------------------------------------------------
(* Properties of the key distance                                          *)

\* The Camelot number (1..12) of a pitch class in a mode: C major is 8B and
\* every fifth up adds one; a minor key has the number of its relative major.
CamelotNumber(pitch, minor) ==
    LET major == IF minor THEN (pitch + 3) % 12 ELSE pitch
    IN  ((7 * major + 7) % 12) + 1

KeyPitchClass(key) == IndexOf(noteNames, SubSeq(key, 1, Len(key) - 6), 0)
KeyIsMinor(key) == SubSeq(key, Len(key) - 4, Len(key)) = <<"M", "i", "n", "o", "r">>

\* The distance the Camelot rule gives two keys.
CamelotRule(k1, k2) ==
    LET d0 == Abs(CamelotNumber(KeyPitchClass(k1), KeyIsMinor(k1))
                  - CamelotNumber(KeyPitchClass(k2), KeyIsMinor(k2)))
        d  == IF d0 > 6 THEN 12 - d0 ELSE d0
    IN  IF KeyIsMinor(k1) = KeyIsMinor(k2)
        THEN (IF d <= 1 THEN 0 ELSE (d - 1) * 10)
        ELSE (IF d = 0 THEN 10 ELSE d * 10)

\* C16: for any two keys in the analyzer's output format the planner's key
\* distance follows the Camelot rule: same mode and wheel distance <= 1 gives
\* 0, same mode and wheel distance d > 1 gives (d-1)*10, a relative
\* major/minor pair gives 10, any other pair of different modes gives d*10.
C16_CamelotRule ==
    keyOut # Nil => keyOut.dist = CamelotRule(keyIn.k1, keyIn.k2)

-----------------------------------------------------------------------------
(* Properties of the sidecar line                                          *)

\* C17: for every offset_ms >= 0 the sidecar line is "[MM:SS.ss] name\n":
\* exactly two minute digits, a seconds field of five characters whose value
\* lies in 00.00..59.99, a space, the filename without its extension and a
\* newline.
C17_LineForm ==
    lrcOut # Nil =>
        LET t    == lrcOut.text
            name == TrimSuffix(lrcIn.Name, Ext(lrcIn.Name))
        IN  /\ Len(t) = 12 + Len(name)
            /\ t[1] = "[" /\ t[4] = ":" /\ t[7] = "." /\ t[10] = "]" /\ t[11] = " "
            /\ SubSeq(t, 12, Len(t) - 1) = name
            /\ t[Len(t)] = "\n"
            /\ lrcOut.line.Stamp.Min < 100
            /\ lrcOut.line.Stamp.Centis <= 5999

-----------------------------------------------------------------------------
(* Properties of the beat grid                                             *)

BeatsIncrease(b) == \A k \in 1..(Len(b) - 1) : b[k] < b[k + 1]

\* |(b[k+1] - b[k]) - 60/bpm| <= 1 ms, the tempo in tenths of a BPM.
BeatsEvenlySpaced(b, bpm10) ==
    \A k \in 1..(Len(b) - 1) : Abs((b[k + 1] - b[k]) * bpm10 - 600000) <= bpm10

\* C18 as stated: the beat times are strictly increasing, lie in
\* [0, duration), and consecutive beats differ by 60/bpm within 1 ms.
C18_AsStated ==
    beatOut # Nil =>
        /\ BeatsIncrease(beatOut.beats)
        /\ \A k \in 1..Len(beatOut.beats) :
               beatOut.beats[k] >= 0 /\ beatOut.beats[k] * TicksPerMs < beatIn.duration
        /\ BeatsEvenlySpaced(beatOut.beats, beatIn.bpm)

\* C18: for a tempo in 60..200 and an anchor below the duration, the beat
\* times are strictly increasing, lie in [0, duration + 0.5 ms] (each is a
\* time of the grid in [0, duration), rounded to the millisecond), and
\* consecutive beats differ by 60/bpm within 1 ms.
C18_BeatGrid ==
    beatOut # Nil =>
        /\ BeatsIncrease(beatOut.beats)
        /\ \A k \in 1..Len(beatOut.beats) :
               /\ beatOut.beats[k] >= 0
               /\ 2 * beatOut.beats[k] * TicksPerMs <= 2 * beatIn.duration + TicksPerMs
        /\ BeatsEvenlySpaced(beatOut.beats, beatIn.bpm)

\* A grid with beats before and after its anchor, whose last beat was
\* rounded up to the end of the track or beyond.
C18_Reached ==
    /\ beatOut # Nil
    /\ anchorTime(beatIn.onsetIdx) >= beatPeriod(beatIn.bpm)
    /\ Len(beatOut.beats) >= 10
    /\ beatOut.beats[Len(beatOut.beats)] * TicksPerMs >= beatIn.duration
====
